---- MODULE Spec2Model ----
(***************************************************************************)
(* EngageFlow: campaign scheduling and bulk-send orchestration.            *)
(*                                                                         *)
(* The model follows server/services/schedulerService.ts (SchedulerService *)
(* and EmailService), the MemStorage record store of server/storage.ts,    *)
(* the AIPersonalizationService and the campaign routes of                 *)
(* server/routes.ts.                                                       *)
(*                                                                         *)
(* Time is counted in half hours (the finest unit the reminder thresholds  *)
(* 24 h, 2 h and 0.5 h need).  A null id is 0, a null timestamp is NoTime. *)
(* A string is a sequence of tokens <<kind, name, n>>: literal text,       *)
(* a {{name}} placeholder, or the value of a field of record n.            *)
(*                                                                         *)
(* Every async function is cut at its awaits into steps; JavaScript runs   *)
(* each step to completion, so a step is one atomic action.  The body of   *)
(* one sendCampaignEmail call is taken as one step, placed where its       *)
(* provider call resolves.                                                 *)
(***************************************************************************)
EXTENDS Integers, Sequences, FiniteSets, Bags, TLC

\* ------------------------------------------------------------------------
\* Bounds of the model
\* ------------------------------------------------------------------------
NumAttBulk == 15
NumAttSmall == 2
MaxCampaigns == 2
MaxTicks == 2
MaxInv == 3
MaxTime == 1
MaxJobs == 2
MaxCount == 2
MaxDirect == 1
MaxFaults == 1
MaxHours == 2
MaxCalls == 2
MaxTokens == 3

\* ------------------------------------------------------------------------
\* Program constants
\* ------------------------------------------------------------------------
BatchSize == 10
ScoreMin == 0
ScoreMax == 100
DefaultScore == 50
OpenWeight == 2
ClickWeight == 5
AttendWeight == 10
RecentWindow == 1440
HalfHoursPerDay == 48
HalfHoursPerWeek == 336
RetentionWindow == 4320

NoId == 0
NoTime == 0 - 1

\* The IEEE not-a-number, which Math.round gives for a value that is not a
\* number: an integer that no arithmetic of the model produces; the
\* operators below test for it before they compute.
NaN == 0 - 1000000

\* ------------------------------------------------------------------------
\* Strings
\* ------------------------------------------------------------------------
Lit(s, n) == <<"lit", s, n>>
Ph(name) == <<"ph", name, 0>>
Val(field, n) == <<"val", field, n>>
EmptyStr == << >>

RECURSIVE Flatten(_)
Flatten(ss) == IF ss = << >> THEN << >> ELSE Head(ss) \o Flatten(Tail(ss))

\* String.prototype.replace(/\{\{name\}\}/g, repl)
ReplaceAll(str, name, repl) ==
    Flatten([k \in 1..Len(str) |-> IF str[k] = Ph(name) THEN repl ELSE <<str[k]>>])

VARIABLES
    now,            \* wall clock, in half hours
    campaigns,      \* MemStorage.emailCampaigns: id -> record
    attendees,      \* MemStorage.attendees: id -> record
    events,         \* MemStorage.events: id -> record
    templates,      \* MemStorage.emailTemplates: id -> record
    registrations,  \* MemStorage.eventRegistrations
    emailSends,     \* MemStorage.emailSends
    analyticsEvents,\* MemStorage.analyticsEvents
    bulk,           \* the sendBulkCampaign invocations
    ticks,          \* the processScheduledCampaigns invocations
    tasks,          \* SchedulerService.tasks: campaign id -> timer
    timers,         \* the one-shot cron tasks ever created
    reminder,       \* the sendEventReminders invocation
    job,            \* the updateEngagementScores invocation
    provider,       \* how the email provider answers, whether the AI service is reachable
    score,          \* a calculateEngagementScore call: its inputs and result
    cleanup,        \* the cleanupOldData invocation
    requests        \* the registration requests in flight or answered

vars == <<now, campaigns, attendees, events, templates, registrations,
          emailSends, analyticsEvents, bulk, ticks, tasks, timers,
          reminder, job, provider, score, cleanup, requests>>

\* ------------------------------------------------------------------------
\* Identifiers
\* ------------------------------------------------------------------------
AttendeeIds == 1..(NumAttBulk + 1)
CampaignIds == 1..(MaxCampaigns + 1)
EventIds == 1..3
TemplateIds == 1..2
InvIds == 1..MaxInv
TickIds == 1..MaxTicks

NullStr == << <<"null", "", 0>> >>

\* x || dflt on a nullable string
OrElse(x, dflt) == IF x = NullStr \/ x = EmptyStr THEN dflt ELSE x

NoTarget ==
    [present |-> FALSE, interests |-> {}, hasScore |-> FALSE, min |-> 0,
     max |-> 0, attendanceHistory |-> "none"]

\* ------------------------------------------------------------------------
\* MemStorage
\* ------------------------------------------------------------------------
NewAttendee(id, t) ==
    [id |-> id, name |-> <<Lit("name", id)>>, email |-> <<Lit("email", id)>>,
     company |-> NullStr, jobTitle |-> NullStr, interests |-> {},
     engagementScore |-> 0, registrationDate |-> t, lastActivity |-> t]

RECURSIVE AttendeesByDate(_)
AttendeesByDate(S) ==
    IF S = {} THEN << >>
    ELSE LET first == CHOOSE a \in S : \A b \in S :
                 \/ attendees[a].registrationDate > attendees[b].registrationDate
                 \/ /\ attendees[a].registrationDate = attendees[b].registrationDate
                    /\ a <= b
         IN <<first>> \o AttendeesByDate(S \ {first})

getAttendees == AttendeesByDate(DOMAIN attendees)

getEventRegistrations(eventId) == {r \in registrations : r.eventId = eventId}

NewCampaign(id, ins) ==
    [id |-> id, name |-> ins.name, type |-> ins.type, subject |-> ins.subject,
     content |-> ins.content, status |-> ins.status, eventId |-> ins.eventId,
     templateId |-> ins.templateId, scheduledAt |-> ins.scheduledAt,
     targetAudience |-> ins.targetAudience, sentAt |-> NoTime]

NextCampaignId == Cardinality(DOMAIN campaigns) + 1

createEmailCampaign(ins) ==
    campaigns' = campaigns @@ (NextCampaignId :> NewCampaign(NextCampaignId, ins))

\* { ...campaign, ...updateData }
updateEmailCampaign(store, id, upd) ==
    IF id \in DOMAIN store
    THEN [store EXCEPT ![id] =
            [f \in DOMAIN store[id] |->
                IF f \in DOMAIN upd THEN upd[f] ELSE store[id][f]]]
    ELSE store

RECURSIVE IdsInOrder(_)
IdsInOrder(S) ==
    IF S = {} THEN << >>
    ELSE LET m == CHOOSE x \in S : \A y \in S : x <= y
         IN <<m>> \o IdsInOrder(S \ {m})

IsDue(c) ==
    /\ c.status = "scheduled"
    /\ c.scheduledAt # NoTime
    /\ c.scheduledAt <= now

getScheduledCampaigns ==
    IdsInOrder({c \in DOMAIN campaigns : IsDue(campaigns[c])})

getEmailTemplates ==
    IdsInOrder({t \in DOMAIN templates : templates[t].isActive})

\* randomUUID: a fresh id
SendId(cid, a) ==
    <<cid, a, Cardinality({s \in emailSends : s.campaignId = cid /\ s.attendeeId = a}) + 1>>

\* by names the call that created the record
createEmailSend(sends, inv, cid, a) ==
    sends \cup {[id |-> SendId(cid, a), by |-> inv, campaignId |-> cid, attendeeId |-> a,
                 sentAt |-> now, openedAt |-> NoTime, clickedAt |-> NoTime,
                 bounced |-> FALSE, unsubscribed |-> FALSE]}

updateAttendee(store, id, upd) ==
    IF id \in DOMAIN store
    THEN [store EXCEPT ![id] =
            [f \in DOMAIN store[id] |->
                IF f = "lastActivity" THEN now
                ELSE IF f \in DOMAIN upd THEN upd[f] ELSE store[id][f]]]
    ELSE store

updateAttendeeEngagement(store, id, newScore) ==
    IF id \in DOMAIN store
    THEN [store EXCEPT ![id].engagementScore = newScore,
                       ![id].lastActivity = now]
    ELSE store

\* ------------------------------------------------------------------------
\* EmailService: template renderer
\* ------------------------------------------------------------------------
calculateTimeUntil(eventDate) ==
    LET diff == eventDate - now
        days == diff \div HalfHoursPerDay
        hours == (diff % HalfHoursPerDay) \div 2
    IN  IF diff <= 0 THEN <<Lit("now", 0)>>
        ELSE IF days > 0 THEN <<Lit(IF days > 1 THEN "days" ELSE "day", days)>>
        ELSE IF hours > 0 THEN <<Lit(IF hours > 1 THEN "hours" ELSE "hour", hours)>>
        ELSE <<Lit("less than an hour", 0)>>

ApplyEventVariables(str, ev) ==
    LET e == events[ev]
        r1 == ReplaceAll(str, "eventTitle", e.title)
        r2 == ReplaceAll(r1, "eventDescription", OrElse(e.description, EmptyStr))
        r3 == ReplaceAll(r2, "eventDate", <<Val("date", e.startDate)>>)
        r4 == ReplaceAll(r3, "eventTime", <<Val("time", e.startDate)>>)
        r5 == ReplaceAll(r4, "eventLocation", OrElse(e.location, <<Lit("Virtual", 0)>>))
    IN  ReplaceAll(r5, "timeUntil", calculateTimeUntil(e.startDate))

applyTemplateVariablesBlanking(template, a, ev) ==
    LET att == attendees[a]
        r1 == ReplaceAll(template, "attendeeName", att.name)
        r2 == ReplaceAll(r1, "attendeeEmail", att.email)
        r3 == ReplaceAll(r2, "attendeeCompany", OrElse(att.company, EmptyStr))
        r4 == ReplaceAll(r3, "attendeeJobTitle", OrElse(att.jobTitle, EmptyStr))
        r5 == IF ev # NoId THEN ApplyEventVariables(r4, ev) ELSE r4
        r6 == ReplaceAll(r5, "resourceLinks", <<Lit("Resource links will be available after the event", 0)>>)
        r7 == ReplaceAll(r6, "feedbackLink", <<Lit("https://eventboost.com/feedback", 0)>>)
    IN  SelectSeq(r7, LAMBDA t : t[1] # "ph")

\* ev is the id of the event found in the store, NoId when there is none
applyTemplateVariables(template, a, ev) ==
    LET att == attendees[a]
        r1 == ReplaceAll(template, "attendeeName", att.name)
        r2 == ReplaceAll(r1, "attendeeEmail", att.email)
        r3 == ReplaceAll(r2, "attendeeCompany", OrElse(att.company, EmptyStr))
        r4 == ReplaceAll(r3, "attendeeJobTitle", OrElse(att.jobTitle, EmptyStr))
        r5 == IF ev # NoId THEN ApplyEventVariables(r4, ev) ELSE r4
        r6 == ReplaceAll(r5, "resourceLinks", <<Lit("Resource links will be available after the event", 0)>>)
    IN  ReplaceAll(r6, "feedbackLink", <<Lit("https://eventboost.com/feedback", 0)>>)

\* ------------------------------------------------------------------------
\* AIPersonalizationService.personalizeEmailContent
\* ------------------------------------------------------------------------
\* What the completion request can do: throw, or answer with a subject and
\* a content, either of which may be missing.
AIThrows == [threw |-> TRUE, subject |-> EmptyStr, content |-> EmptyStr]

AIOutcomes ==
    { AIThrows,
      [threw |-> FALSE, subject |-> <<Lit("ai subject", 0)>>,
       content |-> <<Lit("ai content", 0), Ph("attendeeName")>>],
      [threw |-> FALSE, subject |-> EmptyStr,
       content |-> <<Lit("ai content", 0)>>] }

\* a failed completion request yields blank content instead of the template
personalizeEmailContentBlank(template, ai) ==
    IF ai.threw
    THEN [subject |-> EmptyStr, content |-> EmptyStr]
    ELSE [subject |-> OrElse(ai.subject, template.subject),
          content |-> OrElse(ai.content, template.content)]

personalizeEmailContent(template, ai) ==
    IF ai.threw
    THEN [subject |-> template.subject, content |-> template.content]
    ELSE [subject |-> OrElse(ai.subject, template.subject),
          content |-> OrElse(ai.content, template.content)]

\* ------------------------------------------------------------------------
\* EmailService.getTargetAttendees
\* ------------------------------------------------------------------------
\* a flag that is not set counts as set
TruthyUnlessFalse(flag) == flag # "false"

\* r.attended as a condition: null and false are falsy
Truthy(flag) == flag = "true"

\* score || 0: a score that is not a number counts as 0
OrZero(x) == IF x = NaN THEN 0 ELSE x

\* the link to the event is not looked at
getTargetAttendeesUnlinked(campaign) ==
    LET all == getAttendees
        regs == getEventRegistrations(campaign.eventId)
        registered == {r.attendeeId : r \in regs}
        s1 == all
        ta == campaign.targetAudience
        s2 == IF ta.present /\ ta.interests # {}
              THEN SelectSeq(s1, LAMBDA a : attendees[a].interests \cap ta.interests # {})
              ELSE s1
        s3 == IF ta.present /\ ta.hasScore
              THEN SelectSeq(s2, LAMBDA a :
                        /\ OrZero(attendees[a].engagementScore) >= ta.min
                        /\ OrZero(attendees[a].engagementScore) <= ta.max)
              ELSE s2
        attendedSet == {r.attendeeId : r \in
                          {q \in regs : IF ta.attendanceHistory = "attended"
                                        THEN Truthy(q.attended)
                                        ELSE ~Truthy(q.attended)}}
    IN  IF /\ ta.present
           /\ ta.attendanceHistory \notin {"none", "all"}
           /\ campaign.eventId # NoId
        THEN SelectSeq(s3, LAMBDA a : a \in attendedSet)
        ELSE s3

\* an attendee is kept only with every tag of the targeting
getTargetAttendeesAllTags(campaign) ==
    LET all == getAttendees
        regs == getEventRegistrations(campaign.eventId)
        registered == {r.attendeeId : r \in regs}
        s1 == IF campaign.eventId # NoId
              THEN SelectSeq(all, LAMBDA a : a \in registered) ELSE all
        ta == campaign.targetAudience
        s2 == IF ta.present /\ ta.interests # {}
              THEN SelectSeq(s1, LAMBDA a : ta.interests \subseteq attendees[a].interests)
              ELSE s1
        s3 == IF ta.present /\ ta.hasScore
              THEN SelectSeq(s2, LAMBDA a :
                        /\ OrZero(attendees[a].engagementScore) >= ta.min
                        /\ OrZero(attendees[a].engagementScore) <= ta.max)
              ELSE s2
        attendedSet == {r.attendeeId : r \in
                          {q \in regs : IF ta.attendanceHistory = "attended"
                                        THEN Truthy(q.attended)
                                        ELSE ~Truthy(q.attended)}}
    IN  IF /\ ta.present
           /\ ta.attendanceHistory \notin {"none", "all"}
           /\ campaign.eventId # NoId
        THEN SelectSeq(s3, LAMBDA a : a \in attendedSet)
        ELSE s3

\* the audience of the campaign, in the order of getAttendees
getTargetAttendees(campaign) ==
    LET all == getAttendees
        regs == getEventRegistrations(campaign.eventId)
        registered == {r.attendeeId : r \in regs}
        s1 == IF campaign.eventId # NoId
              THEN SelectSeq(all, LAMBDA a : a \in registered) ELSE all
        ta == campaign.targetAudience
        s2 == IF ta.present /\ ta.interests # {}
              THEN SelectSeq(s1, LAMBDA a : attendees[a].interests \cap ta.interests # {})
              ELSE s1
        s3 == IF ta.present /\ ta.hasScore
              THEN SelectSeq(s2, LAMBDA a :
                        /\ OrZero(attendees[a].engagementScore) >= ta.min
                        /\ OrZero(attendees[a].engagementScore) <= ta.max)
              ELSE s2
        attendedSet == {r.attendeeId : r \in
                          {q \in regs : IF ta.attendanceHistory = "attended"
                                        THEN Truthy(q.attended)
                                        ELSE ~Truthy(q.attended)}}
    IN  IF /\ ta.present
           /\ ta.attendanceHistory \notin {"none", "all"}
           /\ campaign.eventId # NoId
        THEN SelectSeq(s3, LAMBDA a : a \in attendedSet)
        ELSE s3


\* ------------------------------------------------------------------------
\* EmailService.sendCampaignEmail
\* ------------------------------------------------------------------------
\* What provider.sendEmail can do: resolve true, resolve false, or throw.
ProviderOutcomes == {"ok", "fail", "throw"}

getEmailTemplate(id) == IF id # NoId /\ id \in DOMAIN templates THEN id ELSE NoId

getEvent(id) == IF id # NoId /\ id \in DOMAIN events THEN id ELSE NoId

\* the subject and content handed to the provider
ComposeMail(campaign, a, ai) ==
    LET template == getEmailTemplate(campaign.templateId)
        event == getEvent(campaign.eventId)
        base == IF template # NoId
                THEN personalizeEmailContent(templates[template], ai)
                ELSE [subject |-> campaign.subject, content |-> campaign.content]
    IN  [subject |-> applyTemplateVariables(base.subject, a, event),
         content |-> applyTemplateVariables(base.content, a, event)]

\* the value sendCampaignEmail resolves to: the provider's answer, false
\* when the provider throws (the outer catch)
SendSucceeds(prov) == prov = "ok"

\* the outcomes of the completion request that one send can see
AIChoices(campaign) ==
    IF getEmailTemplate(campaign.templateId) # NoId /\ provider.ai THEN AIOutcomes
    ELSE {AIThrows}

\* the answers the provider can give for recipient a
ProviderAnswers(a) ==
    IF provider.free THEN ProviderOutcomes
    ELSE IF a \in provider.throws THEN {"throw"}
    ELSE IF a \in provider.fails THEN {"fail"}
    ELSE {"ok"}

\* the record of one email handed to the provider
MailRecord(campaign, a, ai) ==
    LET m == ComposeMail(campaign, a, ai)
    IN  [subject |-> m.subject, content |-> m.content,
         templateId |-> getEmailTemplate(campaign.templateId),
         eventId |-> getEvent(campaign.eventId),
         aiThrew |-> (getEmailTemplate(campaign.templateId) # NoId /\ ai.threw)]

\* the Send record is written whatever the provider answered
sendCampaignEmailAlwaysTracks(inv, campaign, a, prov) ==
    /\ emailSends' = createEmailSend(emailSends, inv, campaign.id, a)
    /\ attendees' = updateAttendee(attendees, a, [lastActivity |-> now])

\* the store after one sendCampaignEmail: on success a Send record is
\* created and the attendee's last activity is refreshed
sendCampaignEmail(inv, campaign, a, prov) ==
    IF SendSucceeds(prov)
    THEN /\ emailSends' = createEmailSend(emailSends, inv, campaign.id, a)
         /\ attendees' = updateAttendee(attendees, a, [lastActivity |-> now])
    ELSE UNCHANGED <<emailSends, attendees>>

\* ------------------------------------------------------------------------
\* EmailService.sendBulkCampaign
\* ------------------------------------------------------------------------
BlankInsert ==
    [name |-> <<"none", 0>>, type |-> "none", subject |-> EmptyStr,
     content |-> EmptyStr,
     status |-> "none", eventId |-> NoId, templateId |-> NoId,
     scheduledAt |-> NoTime, targetAudience |-> NoTarget]

IdleBulk ==
    [pc |-> "idle", cid |-> NoId, campaign |-> NewCampaign(NoId, BlankInsert),
     audience |-> << >>, i |-> 0, pending |-> {}, sent |-> 0, failed |-> 0,
     errors |-> EmptyBag, attempts |-> EmptyBag, delivered |-> {},
     mails |-> << >>, threw |-> FALSE, caller |-> "none"]

BatchToEnd(audience, i) ==
    {audience[k] : k \in {j \in 1..Len(audience) : j > i}}

\* attendees.slice(i, i + batchSize), as the set of its members
Batch(audience, i) ==
    {audience[k] : k \in {j \in 1..Len(audience) : j > i /\ j <= i + BatchSize}}

FreeInv == {i \in InvIds : bulk[i].pc = "idle"}

NextInv == CHOOSE i \in FreeInv : \A j \in FreeInv : i <= j

\* the campaign is not looked for: a call on a missing id goes on
BulkCalledUnchecked(cid, caller) ==
    [IdleBulk EXCEPT !.pc = "resolve", !.cid = cid,
                     !.campaign = IF cid \in DOMAIN campaigns THEN campaigns[cid]
                                  ELSE NewCampaign(cid, BlankInsert),
                     !.caller = caller]

\* the call itself: the campaign is read, and a missing one ends the call
BulkCalled(cid, caller) ==
    IF cid \in DOMAIN campaigns
    THEN [IdleBulk EXCEPT !.pc = "resolve", !.cid = cid,
                          !.campaign = campaigns[cid], !.caller = caller]
    ELSE [IdleBulk EXCEPT !.pc = "done", !.cid = cid, !.failed = 1,
                          !.errors = SetToBag({<<"Campaign not found", 0>>}),
                          !.caller = caller]

\* the final update forgets the timestamp
BulkFinalUpdateNoStamp(cid) == [status |-> "sent"]

\* the final update of the campaign
BulkFinalUpdate(cid) == [status |-> "sent", sentAt |-> now]

\* getTargetAttendees has answered: the first batch starts, or with an
\* empty audience the loop is skipped and the call completes
BulkResolve(i) ==
    /\ bulk[i].pc = "resolve"
    /\ LET audience == getTargetAttendees(bulk[i].campaign)
       IN  IF Len(audience) = 0
           THEN /\ bulk' = [bulk EXCEPT ![i].pc = "done"]
                /\ campaigns' = updateEmailCampaign(campaigns, bulk[i].cid,
                                                    BulkFinalUpdate(bulk[i].cid))
           ELSE /\ bulk' = [bulk EXCEPT ![i].pc = "batch",
                                        ![i].audience = audience,
                                        ![i].pending = Batch(audience, 0)]
                /\ UNCHANGED campaigns
    /\ UNCHANGED <<now, attendees, events, templates, registrations, emailSends,
                   analyticsEvents, ticks, tasks, timers, reminder, job, provider, score, cleanup,
                   requests>>

\* a provider exception is not caught: it rejects the batch and the call
BulkCountRethrows(b, a, prov) ==
    IF prov = "throw" THEN [b EXCEPT !.pc = "failed"]
    ELSE IF SendSucceeds(prov)
    THEN [b EXCEPT !.sent = @ + 1]
    ELSE [b EXCEPT !.failed = @ + 1,
                   !.errors = @ (+) SetToBag({<<"Failed to send to", a>>})]

\* what one finished send does to the counters of the call
BulkCount(b, a, prov) ==
    IF SendSucceeds(prov)
    THEN [b EXCEPT !.sent = @ + 1]
    ELSE [b EXCEPT !.failed = @ + 1,
                   !.errors = @ (+) SetToBag({<<"Failed to send to", a>>})]

\* one send of the current batch finishes
BulkSendOne(i, a) ==
    /\ bulk[i].pc = "batch"
    /\ a \in bulk[i].pending
    /\ \E prov \in ProviderAnswers(a), ai \in AIChoices(bulk[i].campaign) :
          /\ sendCampaignEmail(i, bulk[i].campaign, a, prov)
          /\ bulk' = [bulk EXCEPT ![i] =
                [BulkCount(bulk[i], a, prov) EXCEPT
                    !.pending = @ \ {a},
                    !.attempts = @ (+) SetToBag({a}),
                    !.delivered = IF prov = "ok" THEN @ \cup {a} ELSE @,
                    !.mails = (a :> MailRecord(bulk[i].campaign, a, ai)) @@ @,
                    !.threw = @ \/ prov = "throw"]]
    /\ UNCHANGED <<now, campaigns, events, templates, registrations,
                   analyticsEvents, ticks, tasks, timers, reminder, job,
                   provider, score, cleanup,
                   requests>>

\* is there a batch after the one that starts at i
MoreBatches(b) == b.i + BatchSize < Len(b.audience)

\* Promise.all of the batch has resolved
BulkJoin(i) ==
    /\ bulk[i].pc = "batch"
    /\ bulk[i].pending = {}
    /\ IF MoreBatches(bulk[i])
       THEN /\ bulk' = [bulk EXCEPT ![i].pc = "delay"]
            /\ UNCHANGED campaigns
       ELSE /\ bulk' = [bulk EXCEPT ![i].pc = "done"]
            /\ campaigns' = updateEmailCampaign(campaigns, bulk[i].cid,
                                                BulkFinalUpdate(bulk[i].cid))
    /\ UNCHANGED <<now, attendees, events, templates, registrations, emailSends,
                   analyticsEvents, ticks, tasks, timers, reminder, job, provider, score, cleanup,
                   requests>>

\* the delay between two batches has passed
BulkNextBatch(i) ==
    /\ bulk[i].pc = "delay"
    /\ bulk' = [bulk EXCEPT ![i].pc = "batch",
                            ![i].i = @ + BatchSize,
                            ![i].pending = Batch(bulk[i].audience, bulk[i].i + BatchSize)]
    /\ UNCHANGED <<now, campaigns, attendees, events, templates, registrations,
                   emailSends, analyticsEvents, ticks, tasks, timers, reminder,
                   job, provider, score, cleanup,
                   requests>>

\* POST /api/campaigns/:id/send, or any other direct call
DirectCalls == {i \in InvIds : bulk[i].caller = "direct"}

CallSendBulk(cid) ==
    /\ FreeInv # {}
    /\ Cardinality(DirectCalls) < MaxDirect
    /\ bulk' = [bulk EXCEPT ![NextInv] = BulkCalled(cid, "direct")]
    /\ UNCHANGED <<now, campaigns, attendees, events, templates, registrations,
                   emailSends, analyticsEvents, ticks, tasks, timers, reminder,
                   job, provider, score, cleanup,
                   requests>>


\* ------------------------------------------------------------------------
\* Initial stores
\* ------------------------------------------------------------------------
IdleTick ==
    [pc |-> "idle", snapshot |-> << >>, pos |-> 0, inv |-> 0, error |-> "none"]

IdleReminder ==
    [pc |-> "idle", work |-> << >>, pos |-> 0, cid |-> NoId, inv |-> 0,
     lastRun |-> NoTime, error |-> "none"]

IdleJob ==
    [pc |-> "idle", snapshot |-> << >>, pos |-> 0, runs |-> 0, lastRun |-> NoTime,
     error |-> "none"]

IdleCleanup ==
    [pc |-> "idle", found |-> 0, runs |-> 0, lastRun |-> NoTime, error |-> "none"]

NoScore ==
    [pc |-> "idle", current |-> 0, opens |-> 0, clicks |-> 0, attended |-> 0,
     failed |-> FALSE, result |-> 0]

ReminderTemplate ==
    [id |-> 1, type |-> "reminder", isActive |-> TRUE,
     subject |-> <<Lit("Don't forget:", 0), Ph("eventTitle"), Ph("timeUntil")>>,
     content |-> <<Lit("Hi", 0), Ph("attendeeName"), Ph("unknownVar")>>]

NewEvent(id, status, start) ==
    [id |-> id, title |-> <<Lit("title", id)>>, description |-> NullStr,
     location |-> NullStr, startDate |-> start, status |-> status]

NewRegistration(ev, a, flag) ==
    [id |-> <<ev, a, 1>>, eventId |-> ev, attendeeId |-> a, attended |-> flag]

NewAnalyticsEvent(id, type, a, ev, cid, t) ==
    [id |-> id, eventType |-> type, attendeeId |-> a, eventId |-> ev,
     campaignId |-> cid, timestamp |-> t]

\* the analytics events that the registrations regs have recorded
RegistrationEvents(regs) ==
    {NewAnalyticsEvent(k, "registration", regs[k].attendeeId, regs[k].eventId, NoId, 0) :
        k \in 1..Len(regs)}

InitQuiet ==
    /\ now = 0
    /\ emailSends = {}
    /\ ticks = [t \in TickIds |-> IdleTick]
    /\ tasks = << >>
    /\ timers = << >>
    /\ reminder = IdleReminder
    /\ job = IdleJob
    /\ cleanup = IdleCleanup
    /\ requests = << >>

InitIdle == InitQuiet /\ score = NoScore

CustomInsert(status, tpl, ev, at) ==
    [name |-> <<"Custom", 0>>, type |-> "follow-up",
     subject |-> <<Lit("subject", 0), Ph("attendeeName")>>,
     content |-> <<Lit("content", 0), Ph("eventTitle"), Ph("unknownVar")>>,
     status |-> status, eventId |-> ev, templateId |-> tpl,
     scheduledAt |-> at, targetAudience |-> NoTarget]

\* The provider behaviours of SpecBulk: every send succeeds, the send to
\* attendee 7 resolves false or throws, every send fails, or the sends to
\* the first attendee of each batch fail and the last one throws.
ProviderFamilies ==
    { [free |-> FALSE, ai |-> FALSE, fails |-> {}, throws |-> {}],
      [free |-> FALSE, ai |-> FALSE, fails |-> {7}, throws |-> {}],
      [free |-> FALSE, ai |-> FALSE, fails |-> {}, throws |-> {7}],
      [free |-> FALSE, ai |-> FALSE, fails |-> AttendeeIds, throws |-> {}],
      [free |-> FALSE, ai |-> FALSE, fails |-> {1, BatchSize + 1}, throws |-> {NumAttBulk}] }

FreeProvider == [free |-> TRUE, ai |-> TRUE, fails |-> {}, throws |-> {}]

\* One call of sendBulkCampaign on a campaign without template or event,
\* for an attendee population that is empty or fills more than one batch.
InitBulk ==
    /\ InitIdle
    /\ \E n \in {0, NumAttBulk} :
          attendees = [a \in 1..n |-> NewAttendee(a, 0)]
    /\ provider \in ProviderFamilies
    /\ events = << >>
    /\ templates = << >>
    /\ registrations = {}
    /\ analyticsEvents = {}
    /\ campaigns = (1 :> NewCampaign(1, CustomInsert("sending", NoId, NoId, NoTime)))
    /\ bulk = [i \in InvIds |-> IF i = 1 THEN BulkCalled(1, "direct") ELSE IdleBulk]

NextBulk ==
    \/ \E i \in InvIds : BulkResolve(i)
    \/ \E i \in InvIds : \E a \in AttendeeIds : BulkSendOne(i, a)
    \/ \E i \in InvIds : BulkJoin(i)
    \/ \E i \in InvIds : BulkNextBatch(i)

SpecBulk == InitBulk /\ [][NextBulk]_vars

\* Direct calls of sendBulkCampaign, on ids with and without a campaign.
\* Campaign 1 names a template and an event that exist, that are missing,
\* or none; event 2 was deleted after attendee 1 registered for it, event 3
\* has no registration.  Campaign 2 is for event 3.
InitMail ==
    /\ InitIdle
    /\ attendees = [a \in 1..NumAttSmall |-> NewAttendee(a, 0)]
    /\ events = (1 :> NewEvent(1, "published", 4)) @@ (3 :> NewEvent(3, "draft", 4))
    /\ templates = (1 :> ReminderTemplate)
    /\ provider = FreeProvider
    /\ registrations = {NewRegistration(1, a, "null") : a \in 1..NumAttSmall}
                          \cup {NewRegistration(2, 1, "null")}
    /\ analyticsEvents =
          RegistrationEvents(<<NewRegistration(2, 1, "null")>>
                \o [a \in 1..NumAttSmall |-> NewRegistration(1, a, "null")])
    /\ \E tpl \in {NoId, 1, 2}, ev \in {NoId, 1, 2} :
          campaigns = (1 :> NewCampaign(1, CustomInsert("draft", tpl, ev, NoTime)))
                      @@ (2 :> NewCampaign(2, CustomInsert("draft", NoId, 3, NoTime)))
    /\ bulk = [i \in InvIds |-> IdleBulk]

\* the audiences of SpecMail fit in one batch
NextMail ==
    \/ \E cid \in CampaignIds : CallSendBulk(cid)
    \/ \E i \in InvIds : BulkResolve(i)
    \/ \E i \in InvIds : \E a \in AttendeeIds : BulkSendOne(i, a)
    \/ \E i \in InvIds : BulkJoin(i)

SpecMail == InitMail /\ [][NextMail]_vars


\* ------------------------------------------------------------------------
\* SchedulerService.processScheduledCampaigns
\* ------------------------------------------------------------------------
\* the cron trigger fires: a tick starts and reads the due campaigns; it
\* may start while earlier ticks are still dispatching (the triggers are
\* a minute apart: an earlier tick has made its first call)
TickStart(t) ==
    /\ ticks[t].pc = "idle"
    /\ \A u \in TickIds : u < t =>
          /\ ticks[u].pc # "idle"
          /\ ticks[u].pc \in {"promote", "call"} => ticks[u].pos > 1
    /\ LET due == getScheduledCampaigns
       IN  ticks' = [ticks EXCEPT ![t] =
                [IdleTick EXCEPT !.pc = IF due = << >> THEN "done" ELSE "promote",
                                 !.snapshot = due,
                                 !.pos = 1]]
    /\ UNCHANGED <<now, campaigns, attendees, events, templates, registrations,
                   emailSends, analyticsEvents, bulk, tasks, timers, reminder,
                   job, provider, score, cleanup,
                   requests>>

\* the update that marks the next campaign of the snapshot
PromoteUpdate(cid) == [status |-> "sending"]

\* mark as sending
TickPromote(t) ==
    /\ ticks[t].pc = "promote"
    /\ LET cid == ticks[t].snapshot[ticks[t].pos]
       IN  campaigns' = updateEmailCampaign(campaigns, cid, PromoteUpdate(cid))
    /\ ticks' = [ticks EXCEPT ![t].pc = "call"]
    /\ UNCHANGED <<now, attendees, events, templates, registrations, emailSends,
                   analyticsEvents, bulk, tasks, timers, reminder, job,
                   provider, score, cleanup,
                   requests>>

\* send the campaign
TickCall(t) ==
    /\ ticks[t].pc = "call"
    /\ FreeInv # {}
    /\ bulk' = [bulk EXCEPT ![NextInv] =
                    BulkCalled(ticks[t].snapshot[ticks[t].pos], "tick")]
    /\ ticks' = [ticks EXCEPT ![t].pc = "wait", ![t].inv = NextInv]
    /\ UNCHANGED <<now, campaigns, attendees, events, templates, registrations,
                   emailSends, analyticsEvents, tasks, timers, reminder, job,
                   provider, score, cleanup,
                   requests>>

\* sendBulkCampaign has returned: the loop goes on with the snapshot
TickResume(t) ==
    /\ ticks[t].pc = "wait"
    /\ bulk[ticks[t].inv].pc = "done"
    /\ ticks' = [ticks EXCEPT
            ![t].pc = IF ticks[t].pos < Len(ticks[t].snapshot) THEN "promote" ELSE "done",
            ![t].pos = @ + 1]
    /\ UNCHANGED <<now, campaigns, attendees, events, templates, registrations,
                   emailSends, analyticsEvents, bulk, tasks, timers, reminder,
                   job, provider, score, cleanup,
                   requests>>

\* ------------------------------------------------------------------------
\* SchedulerService.scheduleCustomCampaign and its one-shot task
\* ------------------------------------------------------------------------
NewTimer(cid, sendAt) ==
    [cid |-> cid, at |-> sendAt, created |-> now, live |-> TRUE,
     pc |-> "armed", inv |-> 0]

\* the state of the scheduler after scheduleCustomCampaign(cid, sendAt)
scheduleCustomCampaign(cid, sendAt) ==
    LET stopped == IF cid \in DOMAIN tasks
                   THEN [timers EXCEPT ![tasks[cid]].live = FALSE]
                   ELSE timers
    IN  /\ timers' = Append(stopped, NewTimer(cid, sendAt))
        /\ tasks' = (cid :> (Len(timers) + 1)) @@ tasks

\* the cron expression of the task matches the clock
TimerFire(k) ==
    /\ k \in DOMAIN timers
    /\ timers[k].live
    /\ timers[k].pc = "armed"
    /\ timers[k].created < timers[k].at
    /\ now = timers[k].at
    /\ FreeInv # {}
    /\ bulk' = [bulk EXCEPT ![NextInv] = BulkCalled(timers[k].cid, "timer")]
    /\ timers' = [timers EXCEPT ![k].pc = "wait", ![k].inv = NextInv]
    /\ UNCHANGED <<now, campaigns, attendees, events, templates, registrations,
                   emailSends, analyticsEvents, ticks, tasks, reminder, job,
                   provider, score, cleanup,
                   requests>>

\* the callback removes the entry of its campaign and destroys its task
TimerDone(k) ==
    /\ k \in DOMAIN timers
    /\ timers[k].pc = "wait"
    /\ bulk[timers[k].inv].pc = "done"
    /\ tasks' = [c \in DOMAIN tasks \ {timers[k].cid} |-> tasks[c]]
    /\ timers' = [timers EXCEPT ![k].pc = "done", ![k].live = FALSE]
    /\ UNCHANGED <<now, campaigns, attendees, events, templates, registrations,
                   emailSends, analyticsEvents, bulk, ticks, reminder, job,
                   provider, score, cleanup,
                   requests>>

\* ------------------------------------------------------------------------
\* POST /api/campaigns
\* ------------------------------------------------------------------------
\* the request bodies: a campaign scheduled for now or later, for the
\* registrants of event 1
CampaignInputs ==
    {CustomInsert("scheduled", NoId, 1, at) :
        at \in {t \in now..(now + 1) : t <= MaxTime}}

CreateCampaign(ins) ==
    /\ NextCampaignId <= MaxCampaigns
    /\ createEmailCampaign(ins)
    /\ IF ins.scheduledAt # NoTime /\ ins.status = "scheduled"
       THEN scheduleCustomCampaign(NextCampaignId, ins.scheduledAt)
       ELSE UNCHANGED <<tasks, timers>>
    /\ UNCHANGED <<now, attendees, events, templates, registrations, emailSends,
                   analyticsEvents, bulk, ticks, reminder, job, provider, score, cleanup,
                   requests>>

\* ------------------------------------------------------------------------
\* SchedulerService.sendEventReminders
\* ------------------------------------------------------------------------
\* the reminder thresholds 24 h, 2 h and 0.5 h, in half hours
ReminderTimes == <<48, 4, 1>>

\* the window closed at both ends
shouldSendReminderClosed(ev, h) ==
    LET until == events[ev].startDate - now
    IN  until <= h /\ until >= h - 2

\* hoursUntilEvent <= reminderHours && hoursUntilEvent > reminderHours - 1
shouldSendReminder(ev, h) ==
    LET until == events[ev].startDate - now
    IN  until <= h /\ until > h - 2

getEvents == IdsInOrder(DOMAIN events)

\* the calls of sendEventReminder that one run makes, in order
ReminderWork ==
    LET evs == SelectSeq(getEvents, LAMBDA e : events[e].status \in {"published", "live"})
    IN  Flatten([k \in 1..Len(evs) |->
            SelectSeq([j \in 1..Len(ReminderTimes) |-> <<evs[k], ReminderTimes[j]>>],
                      LAMBDA p : shouldSendReminder(p[1], p[2]))])

\* the hourly trigger fires
ReminderStart ==
    /\ reminder.pc \in {"idle", "done"}
    /\ now % 2 = 0
    /\ reminder.lastRun # now
    /\ LET work == ReminderWork
       IN  reminder' = [IdleReminder EXCEPT
                !.pc = IF work = << >> THEN "done" ELSE "create",
                !.work = work, !.pos = 1, !.lastRun = now]
    /\ UNCHANGED <<now, campaigns, attendees, events, templates, registrations,
                   emailSends, analyticsEvents, bulk, ticks, tasks, timers, job,
                   provider, score, cleanup,
                   requests>>

ReminderTemplates ==
    SelectSeq(getEmailTemplates, LAMBDA t : templates[t].type = "reminder")

\* the campaign is named after its threshold: `Auto-Reminder ${h}h before
\* event`
ReminderInsert(ev, tpl, h) ==
    [name |-> <<"Auto-Reminder", h>>, type |-> "reminder",
     subject |-> templates[tpl].subject,
     content |-> templates[tpl].content, status |-> "scheduled",
     eventId |-> ev, templateId |-> tpl, scheduledAt |-> now,
     targetAudience |-> NoTarget]

ReminderAdvance(r) ==
    [r EXCEPT !.pc = IF r.pos < Len(r.work) THEN "create" ELSE "done",
              !.pos = @ + 1]

\* sendEventReminder: without reminder template nothing is sent; with one
\* the reminder campaign is created
ReminderCreate ==
    /\ reminder.pc = "create"
    /\ IF ReminderTemplates = << >>
       THEN /\ reminder' = ReminderAdvance(reminder)
            /\ UNCHANGED campaigns
       ELSE /\ NextCampaignId <= MaxCampaigns
            /\ createEmailCampaign(ReminderInsert(reminder.work[reminder.pos][1],
                                                  ReminderTemplates[1],
                                                  reminder.work[reminder.pos][2]))
            /\ reminder' = [reminder EXCEPT !.pc = "call", !.cid = NextCampaignId]
    /\ UNCHANGED <<now, attendees, events, templates, registrations, emailSends,
                   analyticsEvents, bulk, ticks, tasks, timers, job, provider,
                   score, cleanup,
                   requests>>

\* send immediately
ReminderCall ==
    /\ reminder.pc = "call"
    /\ FreeInv # {}
    /\ bulk' = [bulk EXCEPT ![NextInv] = BulkCalled(reminder.cid, "reminder")]
    /\ reminder' = [reminder EXCEPT !.pc = "wait", !.inv = NextInv]
    /\ UNCHANGED <<now, campaigns, attendees, events, templates, registrations,
                   emailSends, analyticsEvents, ticks, tasks, timers, job,
                   provider, score, cleanup,
                   requests>>

ReminderResume ==
    /\ reminder.pc = "wait"
    /\ bulk[reminder.inv].pc = "done"
    /\ reminder' = ReminderAdvance(reminder)
    /\ UNCHANGED <<now, campaigns, attendees, events, templates, registrations,
                   emailSends, analyticsEvents, bulk, ticks, tasks, timers, job,
                   provider, score, cleanup,
                   requests>>

\* ------------------------------------------------------------------------
\* The clock
\* ------------------------------------------------------------------------
ClockTick ==
    /\ now < MaxTime
    /\ now' = now + 1
    /\ UNCHANGED <<campaigns, attendees, events, templates, registrations,
                   emailSends, analyticsEvents, bulk, ticks, tasks, timers,
                   reminder, job, provider, score, cleanup,
                   requests>>

\* ------------------------------------------------------------------------
\* The scheduler with the dispatcher
\* ------------------------------------------------------------------------
\* Two attendees, the first registered for event 1, which is published and
\* starts in two hours; the seeded reminder template; no campaign yet.  The
\* provider accepts the emails to attendee 1.
Init ==
    /\ InitIdle
    /\ attendees = [a \in 1..NumAttSmall |-> NewAttendee(a, 0)]
    /\ events = (1 :> NewEvent(1, "published", 4))
    /\ templates = (1 :> ReminderTemplate)
    /\ registrations = {NewRegistration(1, 1, "null")}
    /\ analyticsEvents = RegistrationEvents(<<NewRegistration(1, 1, "null")>>)
    /\ provider = [free |-> FALSE, ai |-> FALSE, fails |-> {2}, throws |-> {}]
    /\ campaigns = << >>
    /\ bulk = [i \in InvIds |-> IdleBulk]

Next ==
    \/ \E ins \in CampaignInputs : CreateCampaign(ins)
    \/ \E t \in TickIds : TickStart(t)
    \/ \E t \in TickIds : TickPromote(t)
    \/ \E t \in TickIds : TickCall(t)
    \/ \E t \in TickIds : TickResume(t)
    \/ \E k \in 1..MaxCampaigns : TimerFire(k)
    \/ \E k \in 1..MaxCampaigns : TimerDone(k)
    \/ ReminderStart
    \/ ReminderCreate
    \/ ReminderCall
    \/ ReminderResume
    \/ \E i \in InvIds : BulkResolve(i)
    \/ \E i \in InvIds : \E a \in AttendeeIds : BulkSendOne(i, a)
    \/ \E i \in InvIds : BulkJoin(i)
    \/ ClockTick

Spec == Init /\ [][Next]_vars

\* ------------------------------------------------------------------------
\* MemStorage: analytics events, tracking, attendance
\* ------------------------------------------------------------------------
createAnalyticsEvent(store, type, a, ev, cid) ==
    store \cup {NewAnalyticsEvent(Cardinality(store) + 1, type, a, ev, cid, now)}

\* the events of one attendee since startDate
getAnalyticsEvents(attendeeId, startDate) ==
    {e \in analyticsEvents : e.attendeeId = attendeeId /\ e.timestamp >= startDate}

\* updateEmailSend(id, {openedAt}) or (id, {clickedAt}): the field is
\* overwritten and one analytics event is recorded by every call
updateEmailSend(s, field) ==
    /\ emailSends' = (emailSends \ {s}) \cup {[s EXCEPT ![field] = now]}
    /\ analyticsEvents' = createAnalyticsEvent(analyticsEvents,
            IF field = "openedAt" THEN "email_open" ELSE "email_click",
            s.attendeeId, NoId, s.campaignId)

\* the day the engagement model starts at: day 31
EngageStart == RecentWindow + HalfHoursPerDay

\* the events recorded since then
RecentRequests == {e \in analyticsEvents : e.timestamp >= EngageStart}

\* GET /api/track/open/:emailSendId
TrackOpen(s) ==
    /\ s \in emailSends
    /\ Cardinality(RecentRequests) < MaxCount
    /\ updateEmailSend(s, "openedAt")
    /\ UNCHANGED <<now, campaigns, attendees, events, templates, registrations,
                   bulk, ticks, tasks, timers, reminder, job, provider, score, cleanup,
                   requests>>

\* GET /api/track/click/:emailSendId
TrackClick(s) ==
    /\ s \in emailSends
    /\ Cardinality(RecentRequests) < MaxCount
    /\ updateEmailSend(s, "clickedAt")
    /\ UNCHANGED <<now, campaigns, attendees, events, templates, registrations,
                   bulk, ticks, tasks, timers, reminder, job, provider, score, cleanup,
                   requests>>

\* PUT /api/registrations/:id with body {attended: true}
MarkAttended(r) ==
    /\ r \in registrations
    /\ Cardinality(RecentRequests) < MaxCount
    /\ registrations' = (registrations \ {r}) \cup {[r EXCEPT !.attended = "true"]}
    /\ analyticsEvents' = createAnalyticsEvent(analyticsEvents, "attendance",
                                               r.attendeeId, r.eventId, NoId)
    /\ UNCHANGED <<now, campaigns, attendees, events, templates, emailSends,
                   bulk, ticks, tasks, timers, reminder, job, provider, score, cleanup,
                   requests>>

\* ------------------------------------------------------------------------
\* POST /api/attendees, PUT /api/attendees/:id
\* ------------------------------------------------------------------------
NextAttendeeId == Cardinality(DOMAIN attendees) + 1

\* the schema of the request drops engagementScore: a new attendee has 0
CreateAttendee ==
    /\ NextAttendeeId <= NumAttSmall
    /\ attendees' = (NextAttendeeId :> NewAttendee(NextAttendeeId, now)) @@ attendees
    /\ UNCHANGED <<now, campaigns, events, templates, registrations, emailSends,
                   analyticsEvents, bulk, ticks, tasks, timers, reminder, job,
                   provider, score, cleanup,
                   requests>>

\* the request bodies: the handler passes the body to the store unchecked
PutInputs == {[engagementScore |-> 0], [engagementScore |-> 150]}

PutAttendee(a, body) ==
    /\ a \in DOMAIN attendees
    /\ attendees' = updateAttendee(attendees, a, body)
    /\ UNCHANGED <<now, campaigns, events, templates, registrations, emailSends,
                   analyticsEvents, bulk, ticks, tasks, timers, reminder, job,
                   provider, score, cleanup,
                   requests>>

\* ------------------------------------------------------------------------
\* AIPersonalizationService.calculateEngagementScore
\* ------------------------------------------------------------------------
\* What the scoring service can do: throw, or answer a JSON object whose
\* score is absent, a number (here in tenths) or something else.
AIAnswer(kind, tenths) == [kind |-> kind, tenths |-> tenths]

ScoreFails == AIAnswer("throws", 0)

ScoreAnswers ==
    {ScoreFails, AIAnswer("absent", 0), AIAnswer("text", 0)}
        \cup {AIAnswer("number", t) : t \in {0, 0 - 15, 4, 955, 1005}}

\* Math.round of a number given in tenths: halves go up
MathRound(tenths) == (tenths + 5) \div 10

\* Math.max(0, Math.min(100, x))
ClampScore(x) ==
    IF x = NaN THEN NaN
    ELSE IF x > ScoreMax THEN ScoreMax
    ELSE IF x < ScoreMin THEN ScoreMin
    ELSE x

Activity(opens, clicks, attended, regs) ==
    [emailOpens |-> opens, emailClicks |-> clicks, eventsAttended |-> attended,
     registrationFrequency |-> regs]

\* the fallback without the upper clamp
calculateEngagementScoreUnclamped(attendee, recentActivity, answer) ==
    IF answer.kind = "throws"
    THEN LET baseScore == IF attendee.engagementScore \in {0, NaN}
                          THEN 0 ELSE attendee.engagementScore
             activityBonus == recentActivity.emailOpens * OpenWeight
                                + recentActivity.emailClicks * ClickWeight
                                + recentActivity.eventsAttended * AttendWeight
         IN  IF baseScore + activityBonus < ScoreMin THEN ScoreMin
             ELSE baseScore + activityBonus
    ELSE LET rounded ==
                 CASE answer.kind = "absent" -> DefaultScore
                   [] answer.kind = "text" -> NaN
                   [] OTHER -> IF answer.tenths = 0 THEN DefaultScore
                               ELSE MathRound(answer.tenths)
         IN  ClampScore(rounded)

calculateEngagementScore(attendee, recentActivity, answer) ==
    IF answer.kind = "throws"
    THEN LET baseScore == IF attendee.engagementScore \in {0, NaN}
                          THEN 0 ELSE attendee.engagementScore
             activityBonus == recentActivity.emailOpens * OpenWeight
                                + recentActivity.emailClicks * ClickWeight
                                + recentActivity.eventsAttended * AttendWeight
         IN  ClampScore(baseScore + activityBonus)
    ELSE LET rounded ==
                 CASE answer.kind = "absent" -> DefaultScore
                   [] answer.kind = "text" -> NaN
                   [] OTHER -> IF answer.tenths = 0 THEN DefaultScore
                               ELSE MathRound(answer.tenths)
         IN  ClampScore(rounded)

\* ------------------------------------------------------------------------
\* SchedulerService.updateEngagementScores
\* ------------------------------------------------------------------------
CountOf(evs, type) == Cardinality({e \in evs : e.eventType = type})

\* the counts of the attendee's events of the last 30 days
RecentActivity(a) ==
    LET recentEvents == getAnalyticsEvents(a, now - RecentWindow)
    IN  Activity(CountOf(recentEvents, "email_open"),
                 CountOf(recentEvents, "email_click"),
                 CountOf(recentEvents, "attendance"),
                 CountOf(recentEvents, "registration"))

\* the daily trigger fires at midnight: the job reads the attendees; of
\* the objects it holds the loop reads the id and the score
JobStart ==
    /\ job.pc \in {"idle", "done"}
    /\ job.runs < MaxJobs
    /\ now % HalfHoursPerDay = 0
    /\ job.lastRun # now
    /\ LET all == getAttendees
       IN  job' = [pc |-> IF all = << >> THEN "done" ELSE "run",
                   snapshot |-> [k \in 1..Len(all) |->
                                   [id |-> all[k],
                                    engagementScore |-> attendees[all[k]].engagementScore]],
                   pos |-> 1, runs |-> job.runs + 1, lastRun |-> now,
                   error |-> "none"]
    /\ UNCHANGED <<now, campaigns, attendees, events, templates, registrations,
                   emailSends, analyticsEvents, bulk, ticks, tasks, timers,
                   reminder, provider, score, cleanup,
                   requests>>

\* one turn of the loop: count, score, persist
JobStep(answer) ==
    /\ job.pc = "run"
    /\ LET attendee == job.snapshot[job.pos]
           newScore == calculateEngagementScore(attendee, RecentActivity(attendee.id),
                                                answer)
       IN  attendees' = updateAttendeeEngagement(attendees, attendee.id, newScore)
    /\ job' = [job EXCEPT !.pc = IF job.pos < Len(job.snapshot) THEN "run" ELSE "done",
                          !.pos = @ + 1]
    /\ UNCHANGED <<now, campaigns, events, templates, registrations, emailSends,
                   analyticsEvents, bulk, ticks, tasks, timers, reminder,
                   provider, score, cleanup,
                   requests>>

\* a day passes
NextDay ==
    /\ job.pc \in {"idle", "done"}
    /\ job.lastRun = now
    /\ job.runs < MaxJobs
    /\ now' = now + HalfHoursPerDay
    /\ UNCHANGED <<campaigns, attendees, events, templates, registrations,
                   emailSends, analyticsEvents, bulk, ticks, tasks, timers,
                   reminder, job, provider, score, cleanup,
                   requests>>

\* ------------------------------------------------------------------------
\* The engagement recompute with the requests that feed it
\* ------------------------------------------------------------------------
\* Day 31.  Attendee 1 registered for event 1 on day 0, was sent campaign 1
\* and clicked it that day, and opened it on day 1, thirty days ago to the
\* half hour.
InitEngage ==
    /\ now = EngageStart
    /\ attendees = (1 :> NewAttendee(1, 0))
    /\ events = (1 :> NewEvent(1, "completed", 4))
    /\ templates = (1 :> ReminderTemplate)
    /\ registrations = {NewRegistration(1, 1, "null")}
    /\ campaigns = (1 :> [NewCampaign(1, CustomInsert("sent", NoId, 1, NoTime))
                            EXCEPT !.sentAt = 0])
    /\ emailSends = {[id |-> <<1, 1, 1>>, by |-> 0, campaignId |-> 1,
                      attendeeId |-> 1, sentAt |-> 0,
                      openedAt |-> HalfHoursPerDay, clickedAt |-> 0,
                      bounced |-> FALSE, unsubscribed |-> FALSE]}
    /\ analyticsEvents = {NewAnalyticsEvent(1, "registration", 1, 1, NoId, 0),
                          NewAnalyticsEvent(2, "email_click", 1, NoId, 1, 0),
                          NewAnalyticsEvent(3, "email_open", 1, NoId, 1, HalfHoursPerDay)}
    /\ bulk = [i \in InvIds |-> IdleBulk]
    /\ ticks = [t \in TickIds |-> IdleTick]
    /\ tasks = << >>
    /\ timers = << >>
    /\ reminder = IdleReminder
    /\ job = IdleJob
    /\ cleanup = IdleCleanup
    /\ requests = << >>
    /\ provider = FreeProvider
    /\ score = NoScore

NextEngage ==
    \/ CreateAttendee
    \/ \E a \in AttendeeIds : \E body \in PutInputs : PutAttendee(a, body)
    \/ \E s \in emailSends : TrackOpen(s)
    \/ \E s \in emailSends : TrackClick(s)
    \/ \E r \in registrations : MarkAttended(r)
    \/ JobStart
    \/ \E answer \in ScoreAnswers : JobStep(answer)
    \/ NextDay

SpecEngage == InitEngage /\ [][NextEngage]_vars

\* ------------------------------------------------------------------------
\* calculateEngagementScore on its own
\* ------------------------------------------------------------------------
\* the current scores of the calls: every score of the range and a few
\* outside of it
CurrentScores == (ScoreMin - 5)..(ScoreMax + 5)

ScoreInputs ==
    {[pc |-> "called", current |-> c, opens |-> o, clicks |-> k, attended |-> e,
      failed |-> FALSE, result |-> 0] :
        c \in CurrentScores, o \in 0..MaxCount, k \in 0..MaxCount, e \in 0..MaxCount}

InitScore ==
    /\ InitQuiet
    /\ score \in ScoreInputs
    /\ attendees = << >>
    /\ events = << >>
    /\ templates = << >>
    /\ registrations = {}
    /\ analyticsEvents = {}
    /\ campaigns = << >>
    /\ provider = FreeProvider
    /\ bulk = [i \in InvIds |-> IdleBulk]

\* the call returns
ScoreCall(answer) ==
    /\ score.pc = "called"
    /\ score' = [score EXCEPT
            !.pc = "done",
            !.failed = (answer.kind = "throws"),
            !.result = calculateEngagementScore(
                           [engagementScore |-> score.current],
                           Activity(score.opens, score.clicks, score.attended, 0),
                           answer)]
    /\ UNCHANGED <<now, campaigns, attendees, events, templates, registrations,
                   emailSends, analyticsEvents, bulk, ticks, tasks, timers,
                   reminder, job, provider, cleanup, requests>>

NextScore == \E answer \in ScoreAnswers : ScoreCall(answer)

SpecScore == InitScore /\ [][NextScore]_vars

\* ------------------------------------------------------------------------
\* The store rejects a call (DatabaseStorage): exceptions inside the ticks
\* ------------------------------------------------------------------------
\* The error field of an invocation: "store" when a call of the store that
\* the handler made was rejected, "call" when sendBulkCampaign was, and the
\* handler caught it.
StoreFaults ==
    Cardinality({t \in TickIds : ticks[t].error = "store"})
        + Cardinality({i \in InvIds : bulk[i].pc = "rejected"})
        + (IF job.error = "store" THEN 1 ELSE 0)
        + (IF reminder.error = "store" THEN 1 ELSE 0)
        + (IF cleanup.error = "store" THEN 1 ELSE 0)

\* getScheduledCampaigns is rejected: the catch of the tick logs it
TickStartFault(t) ==
    /\ StoreFaults < MaxFaults
    /\ ticks[t].pc = "idle"
    /\ \A u \in TickIds : u < t => ticks[u].pc # "idle"
    /\ ticks' = [ticks EXCEPT ![t] = [IdleTick EXCEPT !.pc = "done", !.error = "store"]]
    /\ UNCHANGED <<now, campaigns, attendees, events, templates, registrations,
                   emailSends, analyticsEvents, bulk, tasks, timers, reminder,
                   job, provider, score, cleanup, requests>>

\* the promotion write is rejected: the loop is left, the rest of the list
\* is not promoted by this tick
TickPromoteFault(t) ==
    /\ StoreFaults < MaxFaults
    /\ ticks[t].pc = "promote"
    /\ ticks' = [ticks EXCEPT ![t].pc = "done", ![t].error = "store"]
    /\ UNCHANGED <<now, campaigns, attendees, events, templates, registrations,
                   emailSends, analyticsEvents, bulk, tasks, timers, reminder,
                   job, provider, score, cleanup, requests>>

\* the tick has no catch: the rejection leaves the handler
TickCaughtRethrows(t) ==
    /\ ticks[t].pc = "wait"
    /\ bulk[ticks[t].inv].pc = "rejected"
    /\ ticks' = [ticks EXCEPT ![t].pc = "rejected", ![t].error = "call"]
    /\ UNCHANGED <<now, campaigns, attendees, events, templates, registrations,
                   emailSends, analyticsEvents, bulk, tasks, timers, reminder,
                   job, provider, score, cleanup, requests>>

\* sendBulkCampaign was rejected: the catch of the tick logs it
TickCaught(t) ==
    /\ ticks[t].pc = "wait"
    /\ bulk[ticks[t].inv].pc = "rejected"
    /\ ticks' = [ticks EXCEPT ![t].pc = "done", ![t].error = "call"]
    /\ UNCHANGED <<now, campaigns, attendees, events, templates, registrations,
                   emailSends, analyticsEvents, bulk, tasks, timers, reminder,
                   job, provider, score, cleanup, requests>>

\* a read of getTargetAttendees is rejected: sendBulkCampaign has no catch
\* around it and is rejected
BulkResolveFault(i) ==
    /\ StoreFaults < MaxFaults
    /\ bulk[i].pc = "resolve"
    /\ bulk' = [bulk EXCEPT ![i].pc = "rejected"]
    /\ UNCHANGED <<now, campaigns, attendees, events, templates, registrations,
                   emailSends, analyticsEvents, ticks, tasks, timers, reminder,
                   job, provider, score, cleanup, requests>>

\* the final update is rejected: the emails are out, the status is as it was
BulkFinalFault(i) ==
    /\ StoreFaults < MaxFaults
    /\ bulk[i].pc = "batch"
    /\ bulk[i].pending = {}
    /\ ~MoreBatches(bulk[i])
    /\ bulk' = [bulk EXCEPT ![i].pc = "rejected"]
    /\ UNCHANGED <<now, campaigns, attendees, events, templates, registrations,
                   emailSends, analyticsEvents, ticks, tasks, timers, reminder,
                   job, provider, score, cleanup, requests>>

\* a call of the store in the loop of updateEngagementScores is rejected:
\* the job ends, the attendees that are left keep their scores
JobFault ==
    /\ StoreFaults < MaxFaults
    /\ job.pc = "run"
    /\ job' = [job EXCEPT !.pc = "done", !.error = "store"]
    /\ UNCHANGED <<now, campaigns, attendees, events, templates, registrations,
                   emailSends, analyticsEvents, bulk, ticks, tasks, timers,
                   reminder, provider, score, cleanup, requests>>

\* getEvents is rejected
ReminderStartFault ==
    /\ StoreFaults < MaxFaults
    /\ reminder.pc \in {"idle", "done"}
    /\ now % 2 = 0
    /\ reminder.lastRun # now
    /\ reminder' = [IdleReminder EXCEPT !.pc = "done", !.lastRun = now,
                                        !.error = "store"]
    /\ UNCHANGED <<now, campaigns, attendees, events, templates, registrations,
                   emailSends, analyticsEvents, bulk, ticks, tasks, timers, job,
                   provider, score, cleanup, requests>>

\* createEmailCampaign is rejected in sendEventReminder, whose own catch
\* logs it: the loop of sendEventReminders goes on
ReminderCreateFault ==
    /\ StoreFaults < MaxFaults
    /\ reminder.pc = "create"
    /\ reminder' = [ReminderAdvance(reminder) EXCEPT !.error = "store"]
    /\ UNCHANGED <<now, campaigns, attendees, events, templates, registrations,
                   emailSends, analyticsEvents, bulk, ticks, tasks, timers, job,
                   provider, score, cleanup, requests>>

\* sendBulkCampaign was rejected: the catch of sendEventReminder logs it
ReminderCaught ==
    /\ reminder.pc = "wait"
    /\ bulk[reminder.inv].pc = "rejected"
    /\ reminder' = [ReminderAdvance(reminder) EXCEPT !.error = "call"]
    /\ UNCHANGED <<now, campaigns, attendees, events, templates, registrations,
                   emailSends, analyticsEvents, bulk, ticks, tasks, timers, job,
                   provider, score, cleanup, requests>>

\* ------------------------------------------------------------------------
\* SchedulerService.cleanupOldData
\* ------------------------------------------------------------------------
\* new Date(event.timestamp) < cutoffDate
IsOld(e) == e.timestamp < now - RetentionWindow

\* the weekly trigger fires: the events are read, the old ones are counted
\* and the count is logged
CleanupRun ==
    /\ cleanup.pc \in {"idle", "done"}
    /\ now % HalfHoursPerWeek = 0
    /\ cleanup.lastRun # now
    /\ cleanup' = [pc |-> "done",
                   found |-> Cardinality({e \in analyticsEvents : IsOld(e)}),
                   runs |-> cleanup.runs + 1, lastRun |-> now, error |-> "none"]
    /\ UNCHANGED <<now, campaigns, attendees, events, templates, registrations,
                   emailSends, analyticsEvents, bulk, ticks, tasks, timers,
                   reminder, job, provider, score, requests>>

\* getAnalyticsEvents is rejected
CleanupFault ==
    /\ StoreFaults < MaxFaults
    /\ cleanup.pc \in {"idle", "done"}
    /\ now % HalfHoursPerWeek = 0
    /\ cleanup.lastRun # now
    /\ cleanup' = [pc |-> "done", found |-> 0, runs |-> cleanup.runs + 1,
                   lastRun |-> now, error |-> "store"]
    /\ UNCHANGED <<now, campaigns, attendees, events, templates, registrations,
                   emailSends, analyticsEvents, bulk, ticks, tasks, timers,
                   reminder, job, provider, score, requests>>

\* ------------------------------------------------------------------------
\* The four periodic triggers
\* ------------------------------------------------------------------------
\* midnight of a Sunday, 91 days after the store was seeded
CronStart == 13 * HalfHoursPerWeek

\* a week passes between two runs of the triggers
NextWeek ==
    /\ now < CronStart + MaxTime * HalfHoursPerWeek
    /\ job.pc \in {"idle", "done"}
    /\ reminder.pc \in {"idle", "done"}
    /\ \A t \in TickIds : ticks[t].pc \in {"idle", "done"}
    /\ now' = now + HalfHoursPerWeek
    /\ UNCHANGED <<campaigns, attendees, events, templates, registrations,
                   emailSends, analyticsEvents, bulk, ticks, tasks, timers,
                   reminder, job, provider, score, cleanup, requests>>

\* Attendee 1 is registered for event 1, which is published and starts in
\* two hours; campaign 1 was created with status scheduled and is due; the
\* scoring service is out of reach.  Of the analytics events one is 91
\* days old and one is 90 days old to the half hour.
InitCron ==
    /\ now = CronStart
    /\ attendees = [a \in 1..NumAttSmall |-> NewAttendee(a, 0)]
    /\ events = (1 :> NewEvent(1, "published", CronStart + 4))
    /\ templates = (1 :> ReminderTemplate)
    /\ registrations = {NewRegistration(1, 1, "null")}
    /\ campaigns = (1 :> NewCampaign(1, CustomInsert("scheduled", NoId, 1, CronStart)))
    /\ emailSends = {}
    /\ analyticsEvents =
          {NewAnalyticsEvent(1, "registration", 1, 1, NoId, 0),
           NewAnalyticsEvent(2, "attendance", 1, 1, NoId, HalfHoursPerDay)}
    /\ bulk = [i \in InvIds |-> IdleBulk]
    /\ ticks = [t \in TickIds |-> IdleTick]
    /\ tasks = (1 :> 1)
    /\ timers = <<NewTimer(1, CronStart)>>
    /\ reminder = IdleReminder
    /\ job = IdleJob
    /\ cleanup = IdleCleanup
    /\ requests = << >>
    /\ provider = [free |-> FALSE, ai |-> FALSE, fails |-> {2}, throws |-> {}]
    /\ score = NoScore

NextCron ==
    \/ \E t \in TickIds : TickStart(t)
    \/ \E t \in TickIds : TickPromote(t)
    \/ \E t \in TickIds : TickCall(t)
    \/ \E t \in TickIds : TickResume(t)
    \/ \E t \in TickIds : TickStartFault(t)
    \/ \E t \in TickIds : TickPromoteFault(t)
    \/ \E t \in TickIds : TickCaught(t)
    \/ \E i \in InvIds : BulkResolve(i)
    \/ \E i \in InvIds : \E a \in AttendeeIds : BulkSendOne(i, a)
    \/ \E i \in InvIds : BulkJoin(i)
    \/ \E i \in InvIds : BulkResolveFault(i)
    \/ \E i \in InvIds : BulkFinalFault(i)
    \/ JobStart
    \/ JobStep(ScoreFails)
    \/ JobFault
    \/ ReminderStart
    \/ ReminderCreate
    \/ ReminderCall
    \/ ReminderResume
    \/ ReminderStartFault
    \/ ReminderCreateFault
    \/ ReminderCaught
    \/ CleanupRun
    \/ CleanupFault
    \/ NextWeek

SpecCron == InitCron /\ [][NextCron]_vars

\* ------------------------------------------------------------------------
\* Promotion and dispatch while the scheduler keeps running
\* ------------------------------------------------------------------------
\* All attendees are registered for event 1; campaign 1, for its
\* registrants, was created with status scheduled and is due.  The provider
\* accepts every email, refuses those to attendee 2, or throws on
\* attendee 1.
InitLive ==
    /\ now = CronStart
    /\ attendees = [a \in 1..NumAttSmall |-> NewAttendee(a, 0)]
    /\ events = (1 :> NewEvent(1, "published", CronStart + HalfHoursPerWeek))
    /\ templates = (1 :> ReminderTemplate)
    /\ registrations = {NewRegistration(1, a, "null") : a \in 1..NumAttSmall}
    /\ analyticsEvents =
          RegistrationEvents([a \in 1..NumAttSmall |-> NewRegistration(1, a, "null")])
    /\ campaigns = (1 :> NewCampaign(1, CustomInsert("scheduled", NoId, 1, CronStart)))
    /\ emailSends = {}
    /\ bulk = [i \in InvIds |-> IdleBulk]
    /\ ticks = [t \in TickIds |-> IdleTick]
    /\ tasks = (1 :> 1)
    /\ timers = <<NewTimer(1, CronStart)>>
    /\ reminder = IdleReminder
    /\ job = IdleJob
    /\ cleanup = IdleCleanup
    /\ requests = << >>
    /\ provider \in {[free |-> FALSE, ai |-> FALSE, fails |-> {}, throws |-> {}],
                      [free |-> FALSE, ai |-> FALSE, fails |-> {2}, throws |-> {}],
                      [free |-> FALSE, ai |-> FALSE, fails |-> {}, throws |-> {1}]}
    /\ score = NoScore

\* the invocations of the promotion tick have returned and the trigger
\* fires again, minute after minute: their records stand for the next
\* invocations (a record that holds a rejection of the store is kept)
NextMinute ==
    /\ \A t \in TickIds : ticks[t].pc = "done"
    /\ \E t \in TickIds : ticks[t].error # "store"
    /\ ticks' = [t \in TickIds |->
                    IF ticks[t].error = "store" THEN ticks[t] ELSE IdleTick]
    /\ UNCHANGED <<now, campaigns, attendees, events, templates, registrations,
                   emailSends, analyticsEvents, bulk, tasks, timers, reminder,
                   job, provider, score, cleanup, requests>>

NextLive ==
    \/ \E t \in TickIds : TickStart(t)
    \/ \E t \in TickIds : TickPromote(t)
    \/ \E t \in TickIds : TickCall(t)
    \/ \E t \in TickIds : TickResume(t)
    \/ \E t \in TickIds : TickStartFault(t)
    \/ \E t \in TickIds : TickPromoteFault(t)
    \/ \E t \in TickIds : TickCaught(t)
    \/ \E i \in InvIds : BulkResolve(i)
    \/ \E i \in InvIds : \E a \in AttendeeIds : BulkSendOne(i, a)
    \/ \E i \in InvIds : BulkJoin(i)
    \/ \E i \in InvIds : BulkResolveFault(i)
    \/ \E i \in InvIds : BulkFinalFault(i)
    \/ NextMinute

\* the steps of the scheduler and of the dispatcher between the sends
LiveStep ==
    \/ \E t \in TickIds : TickStart(t)
    \/ \E t \in TickIds : TickPromote(t)
    \/ \E t \in TickIds : TickCall(t)
    \/ \E t \in TickIds : TickResume(t)
    \/ \E t \in TickIds : TickCaught(t)
    \/ \E i \in InvIds : BulkResolve(i)
    \/ \E i \in InvIds : BulkJoin(i)
    \/ NextMinute

\* call i waits for a send of its batch: BulkSendOne can be taken
SendPending(i) == bulk[i].pc = "batch" /\ bulk[i].pending # {}

\* The cron trigger keeps firing and every handler goes on after each
\* await that returns: as long as one of these steps can be taken, one is
\* taken.  Every send attempt returns: a call does not wait for a send
\* forever.  Nothing makes the store reject a call or keeps it from doing
\* so.
LiveFair ==
    /\ WF_vars(LiveStep)
    /\ \A i \in InvIds :
          \/ []<>(~SendPending(i))
          \/ []<><<\E a \in AttendeeIds : BulkSendOne(i, a)>>_vars

SpecLive == InitLive /\ [][NextLive]_vars /\ LiveFair

\* ------------------------------------------------------------------------
\* PUT /api/events/:id
\* ------------------------------------------------------------------------
EventStatuses == {"draft", "published", "live", "completed", "cancelled"}

\* the start times of the event of SpecRemind, in half hours: around the
\* 0.5 h and 2 h windows and around the 24 h window
StartTimes == (0..(4 * MaxHours)) \cup ((48 - MaxHours)..(48 + 2 * MaxHours))

\* the request bodies: the event is postponed by an hour
EventPutInputs(e) ==
    {[startDate |-> events[e].startDate + 2]}

\* { ...event, ...updateData }: the body is merged into the event unchecked
updateEvent(e, body) ==
    events' = [events EXCEPT ![e] = [f \in DOMAIN @ |->
                   IF f \in DOMAIN body THEN body[f] ELSE @[f]]]

PutEvent(e, body) ==
    /\ e \in DOMAIN events
    /\ body.startDate \in StartTimes
    /\ updateEvent(e, body)
    /\ UNCHANGED <<now, campaigns, attendees, templates, registrations,
                   emailSends, analyticsEvents, bulk, ticks, tasks, timers,
                   reminder, job, provider, score, cleanup, requests>>

\* ------------------------------------------------------------------------
\* The hourly reminders of one event
\* ------------------------------------------------------------------------
\* One event whose status and start time are drawn, attendee 1 registered
\* for it, the seeded reminder template active or not.
InitRemind ==
    /\ InitIdle
    /\ attendees = [a \in 1..NumAttSmall |-> NewAttendee(a, 0)]
    /\ \E status \in EventStatuses : \E start \in StartTimes :
          events = (1 :> NewEvent(1, status, start))
    /\ \E active \in BOOLEAN :
          templates = (1 :> [ReminderTemplate EXCEPT !.isActive = active])
    /\ registrations = {NewRegistration(1, 1, "null")}
    /\ analyticsEvents = RegistrationEvents(<<NewRegistration(1, 1, "null")>>)
    /\ provider = [free |-> FALSE, ai |-> FALSE, fails |-> {2}, throws |-> {}]
    /\ campaigns = << >>
    /\ bulk = [i \in InvIds |-> IdleBulk]

HalfHour ==
    /\ now < 2 * MaxHours
    /\ now' = now + 1
    /\ UNCHANGED <<campaigns, attendees, events, templates, registrations,
                   emailSends, analyticsEvents, bulk, ticks, tasks, timers,
                   reminder, job, provider, score, cleanup, requests>>

NextRemind ==
    \/ ReminderStart
    \/ ReminderCreate
    \/ ReminderCall
    \/ ReminderResume
    \/ \E i \in InvIds : BulkResolve(i)
    \/ \E i \in InvIds : \E a \in AttendeeIds : BulkSendOne(i, a)
    \/ \E i \in InvIds : BulkJoin(i)
    \/ \E e \in DOMAIN events : \E body \in EventPutInputs(e) : PutEvent(e, body)
    \/ HalfHour

SpecRemind == InitRemind /\ [][NextRemind]_vars

\* ------------------------------------------------------------------------
\* SchedulerService.cancelScheduledCampaign
\* ------------------------------------------------------------------------
\* a call of the service that has returned normally
Returned(op, cid) == [op |-> op, cid |-> cid, pc |-> "returned"]

\* the entry is deleted, the task is left running
cancelScheduledCampaignKeepsTask(cid) ==
    IF cid \in DOMAIN tasks
    THEN /\ tasks' = [c \in DOMAIN tasks \ {cid} |-> tasks[c]]
         /\ UNCHANGED timers
    ELSE UNCHANGED <<tasks, timers>>

\* the task of the campaign, if the table has one, is destroyed and its
\* entry deleted
cancelScheduledCampaign(cid) ==
    IF cid \in DOMAIN tasks
    THEN /\ timers' = [timers EXCEPT ![tasks[cid]].live = FALSE]
         /\ tasks' = [c \in DOMAIN tasks \ {cid} |-> tasks[c]]
    ELSE UNCHANGED <<tasks, timers>>

CancelCampaign(cid) ==
    /\ Len(requests) < MaxCalls
    /\ cancelScheduledCampaign(cid)
    /\ requests' = Append(requests, Returned("cancel", cid))
    /\ UNCHANGED <<now, campaigns, attendees, events, templates, registrations,
                   emailSends, analyticsEvents, bulk, ticks, reminder, job,
                   provider, score, cleanup>>

\* Campaigns are created and scheduled through POST /api/campaigns; their
\* timers fire and dispatch; campaigns that exist or not are cancelled.
NextCancel ==
    \/ \E ins \in CampaignInputs : CreateCampaign(ins)
    \/ \E k \in 1..MaxCampaigns : TimerFire(k)
    \/ \E k \in 1..MaxCampaigns : TimerDone(k)
    \/ \E i \in InvIds : BulkResolve(i)
    \/ \E i \in InvIds : \E a \in AttendeeIds : BulkSendOne(i, a)
    \/ \E i \in InvIds : BulkJoin(i)
    \/ \E cid \in 1..MaxCampaigns : CancelCampaign(cid)
    \/ ClockTick

SpecCancel == Init /\ [][NextCancel]_vars

\* ------------------------------------------------------------------------
\* POST /api/events/:eventId/register
\* ------------------------------------------------------------------------
WelcomeTemplate ==
    [id |-> 2, type |-> "welcome", isActive |-> TRUE,
     subject |-> <<Lit("Welcome to", 0), Ph("eventTitle")>>,
     content |-> <<Lit("Hi", 0), Ph("attendeeName"), Ph("eventDescription")>>]

\* a request that has arrived: its first await is the read of the
\* registrations of the event
NewRequest(ev, a) ==
    [op |-> "register", eventId |-> ev, attendeeId |-> a, cid |-> NoId,
     pc |-> IF a = NoId THEN "returned" ELSE "check",
     status |-> IF a = NoId THEN 400 ELSE 0]

\* the Registration gets a fresh id
createEventRegistration(ev, a) ==
    /\ registrations' = registrations \cup
          {[NewRegistration(ev, a, "null") EXCEPT
                !.id = <<ev, a, Cardinality(registrations) + 1>>]}
    /\ analyticsEvents' =
          createAnalyticsEvent(analyticsEvents, "registration", a, ev, NoId)

RegisterArrive(ev, a) ==
    /\ Len(requests) < MaxCalls
    /\ requests' = Append(requests, NewRequest(ev, a))
    /\ UNCHANGED <<now, campaigns, attendees, events, templates, registrations,
                   emailSends, analyticsEvents, bulk, ticks, tasks, timers,
                   reminder, job, provider, score, cleanup>>

\* the registrations of the event have been read: 409 if one of them is
\* the attendee's
RegisterCheck(q) ==
    /\ requests[q].pc = "check"
    /\ LET alreadyRegistered ==
               \E r \in getEventRegistrations(requests[q].eventId) :
                   r.attendeeId = requests[q].attendeeId
       IN  requests' = [requests EXCEPT
                ![q].pc = IF alreadyRegistered THEN "returned" ELSE "create",
                ![q].status = IF alreadyRegistered THEN 409 ELSE 0]
    /\ UNCHANGED <<now, campaigns, attendees, events, templates, registrations,
                   emailSends, analyticsEvents, bulk, ticks, tasks, timers,
                   reminder, job, provider, score, cleanup>>

RegisterCreate(q) ==
    /\ requests[q].pc = "create"
    /\ createEventRegistration(requests[q].eventId, requests[q].attendeeId)
    /\ requests' = [requests EXCEPT ![q].pc = "welcome"]
    /\ UNCHANGED <<now, campaigns, attendees, events, templates, emailSends,
                   bulk, ticks, tasks, timers, reminder, job, provider, score,
                   cleanup>>

WelcomeTemplates ==
    SelectSeq(getEmailTemplates, LAMBDA t : templates[t].type = "welcome")

WelcomeInsert(ev, tpl) ==
    [name |-> <<"Welcome", ev>>, type |-> "welcome",
     subject |-> templates[tpl].subject, content |-> templates[tpl].content,
     status |-> "scheduled", eventId |-> ev, templateId |-> tpl,
     scheduledAt |-> now, targetAudience |-> NoTarget]

\* attendee, event and welcome template are looked up; with all three the
\* welcome campaign is created, otherwise the request is answered
RegisterWelcome(q) ==
    /\ requests[q].pc = "welcome"
    /\ IF /\ requests[q].attendeeId \in DOMAIN attendees
          /\ getEvent(requests[q].eventId) # NoId
          /\ WelcomeTemplates # << >>
       THEN /\ NextCampaignId <= MaxCampaigns
            /\ createEmailCampaign(WelcomeInsert(requests[q].eventId,
                                                 WelcomeTemplates[1]))
            /\ requests' = [requests EXCEPT ![q].pc = "send",
                                            ![q].cid = NextCampaignId]
       ELSE /\ requests' = [requests EXCEPT ![q].pc = "returned",
                                            ![q].status = 201]
            /\ UNCHANGED campaigns
    /\ UNCHANGED <<now, attendees, events, templates, registrations, emailSends,
                   analyticsEvents, bulk, ticks, tasks, timers, reminder, job,
                   provider, score, cleanup>>

\* the welcome email is sent and the request answered with 201
RegisterSend(q) ==
    /\ requests[q].pc = "send"
    /\ \E prov \in ProviderAnswers(requests[q].attendeeId) :
          sendCampaignEmail(0, campaigns[requests[q].cid],
                            requests[q].attendeeId, prov)
    /\ requests' = [requests EXCEPT ![q].pc = "returned", ![q].status = 201]
    /\ UNCHANGED <<now, campaigns, events, templates, registrations,
                   analyticsEvents, bulk, ticks, tasks, timers, reminder, job,
                   provider, score, cleanup>>

\* Event 1 with no registration yet, the seeded templates; event 2 does not
\* exist.
InitRegister ==
    /\ InitIdle
    /\ attendees = [a \in 1..NumAttSmall |-> NewAttendee(a, 0)]
    /\ events = (1 :> NewEvent(1, "published", 4))
    /\ templates = (1 :> ReminderTemplate) @@ (2 :> WelcomeTemplate)
    /\ registrations = {}
    /\ analyticsEvents = {}
    /\ provider = [free |-> FALSE, ai |-> FALSE, fails |-> {2}, throws |-> {}]
    /\ campaigns = << >>
    /\ bulk = [i \in InvIds |-> IdleBulk]

NextRegister ==
    \/ \E ev \in 1..2 : \E a \in {NoId} \cup DOMAIN attendees : RegisterArrive(ev, a)
    \/ \E q \in DOMAIN requests : RegisterCheck(q)
    \/ \E q \in DOMAIN requests : RegisterCreate(q)
    \/ \E q \in DOMAIN requests : RegisterWelcome(q)
    \/ \E q \in DOMAIN requests : RegisterSend(q)

SpecRegister == InitRegister /\ [][NextRegister]_vars

\* ------------------------------------------------------------------------
\* The audience of a targeted campaign
\* ------------------------------------------------------------------------
\* the scores of the attendees of SpecTarget: the ends and the middle of
\* the range, and the NaN that the recompute job can store
TargetScores == {0, 50, 100, NaN}

TargetRanges == {<<0, 50>>, <<50, 100>>, <<50, 50>>}

\* the targetAudience values: none, or an object with or without interests,
\* score range and attendance history
Targets ==
    {NoTarget}
        \cup {[present |-> TRUE, interests |-> ints, hasScore |-> FALSE,
               min |-> 0, max |-> 0, attendanceHistory |-> h] :
                 ints \in {{}, {"ai"}, {"ai", "web"}},
                 h \in {"none", "all", "attended", "not-attended"}}
        \cup {[present |-> TRUE, interests |-> ints, hasScore |-> TRUE,
               min |-> rg[1], max |-> rg[2], attendanceHistory |-> h] :
                 ints \in {{}, {"ai"}, {"ai", "web"}},
                 h \in {"none", "attended", "not-attended"},
                 rg \in TargetRanges}

\* the registrations for event 1: none, attendee 1 who attended, attendee
\* 1 who attended and attendee 2, or attendee 1 marked as absent and
\* attendee 2
TargetRegistrations ==
    {<< >>, <<NewRegistration(1, 1, "true")>>,
     <<NewRegistration(1, 1, "true"), NewRegistration(1, 2, "null")>>,
     <<NewRegistration(1, 1, "false"), NewRegistration(1, 2, "null")>>}

\* the attendance events that the registrations regs have recorded
AttendanceEvents(regs) ==
    {NewAnalyticsEvent(Len(regs) + k, "attendance", regs[k].attendeeId,
                       regs[k].eventId, NoId, 0) :
        k \in {j \in 1..Len(regs) : Truthy(regs[j].attended)}}

\* One campaign, with or without event and targeting; the attendees have
\* any of the scores, attendee 1 is interested in "ai", attendee 2 in "web".
InitTarget ==
    /\ InitIdle
    /\ \E scores \in [1..NumAttSmall -> TargetScores] :
          attendees = [a \in 1..NumAttSmall |->
              [NewAttendee(a, 0) EXCEPT
                  !.engagementScore = scores[a],
                  !.interests = IF a = 1 THEN {"ai"}
                                ELSE IF a = 2 THEN {"web"} ELSE {}]]
    /\ events = (1 :> NewEvent(1, "published", 4))
    /\ templates = << >>
    /\ \E regs \in TargetRegistrations :
          /\ registrations = {regs[k] : k \in 1..Len(regs)}
          /\ analyticsEvents = RegistrationEvents(regs) \cup AttendanceEvents(regs)
    /\ provider = [free |-> FALSE, ai |-> FALSE, fails |-> {}, throws |-> {}]
    /\ \E ev \in {NoId, 1} : \E ta \in Targets :
          campaigns = (1 :> NewCampaign(1,
              [CustomInsert("draft", NoId, ev, NoTime) EXCEPT
                  !.targetAudience = ta]))
    /\ bulk = [i \in InvIds |-> IdleBulk]

NextTarget ==
    \/ CallSendBulk(1)
    \/ \E i \in InvIds : BulkResolve(i)
    \/ \E i \in InvIds : \E a \in AttendeeIds : BulkSendOne(i, a)
    \/ \E i \in InvIds : BulkJoin(i)

SpecTarget == InitTarget /\ [][NextTarget]_vars

\* ------------------------------------------------------------------------
\* The template renderer on its own: applyTemplateVariables is applied to
\* texts of up to MaxTokens pieces (plain text, known placeholders, a
\* placeholder the renderer does not know), for either attendee, with and
\* without an event.  requests holds the call and what it returned.
\* ------------------------------------------------------------------------
RenderTokens ==
    {Lit("text", 0), Ph("attendeeName"), Ph("attendeeCompany"),
     Ph("eventTitle"), Ph("feedbackLink"), Ph("unknownVar")}

RenderInputs == UNION {[1..n -> RenderTokens] : n \in 0..MaxTokens}

Render(k) ==
    /\ k \in 1..Len(requests)
    /\ requests[k].op = "render"
    /\ requests[k].pc = "called"
    /\ requests' = [requests EXCEPT
          ![k].output = applyTemplateVariables(requests[k].input,
                                               requests[k].attendeeId,
                                               requests[k].eventId),
          ![k].pc = "returned"]
    /\ UNCHANGED <<now, campaigns, attendees, events, templates, registrations,
                   emailSends, analyticsEvents, bulk, ticks, tasks, timers,
                   reminder, job, provider, score, cleanup>>

InitRender ==
    /\ now = 0
    /\ emailSends = {}
    /\ ticks = [t \in TickIds |-> IdleTick]
    /\ tasks = << >>
    /\ timers = << >>
    /\ reminder = IdleReminder
    /\ job = IdleJob
    /\ cleanup = IdleCleanup
    /\ score = NoScore
    /\ attendees = (1 :> NewAttendee(1, 0))
                   @@ (2 :> [NewAttendee(2, 0) EXCEPT !.company = <<Lit("company", 2)>>])
    /\ events = (1 :> NewEvent(1, "published", 4))
    /\ templates = (1 :> ReminderTemplate)
    /\ provider = FreeProvider
    /\ registrations = {}
    /\ analyticsEvents = {}
    /\ campaigns = << >>
    /\ bulk = [i \in InvIds |-> IdleBulk]
    /\ \E template \in RenderInputs, a \in {1, 2}, ev \in {NoId, 1} :
          requests = <<[op |-> "render", input |-> template, attendeeId |-> a,
                        eventId |-> ev, output |-> << >>, pc |-> "called"]>>

NextRender == \E k \in 1..MaxCalls : Render(k)

SpecRender == InitRender /\ [][NextRender]_vars

\* ------------------------------------------------------------------------
\* PUT /api/campaigns/:id
\* ------------------------------------------------------------------------
\* the body is stored as it comes, and the scheduler is not told: here the
\* bodies {status: "cancelled"} and {status: "draft"}, sent for a campaign
\* that is scheduled
PutCampaign(cid, status) ==
    /\ cid \in DOMAIN campaigns
    /\ campaigns[cid].status = "scheduled"
    /\ campaigns' = updateEmailCampaign(campaigns, cid, [status |-> status])
    /\ UNCHANGED <<now, attendees, events, templates, registrations, emailSends,
                   analyticsEvents, bulk, ticks, tasks, timers, reminder, job,
                   provider, score, cleanup, requests>>

\* the campaign routes, the promotion tick, the one-shot timers and the
\* dispatcher
NextPut ==
    \/ \E ins \in CampaignInputs : CreateCampaign(ins)
    \/ \E cid \in CampaignIds, status \in {"cancelled", "draft"} : PutCampaign(cid, status)
    \/ \E t \in TickIds : TickStart(t)
    \/ \E t \in TickIds : TickPromote(t)
    \/ \E t \in TickIds : TickCall(t)
    \/ \E t \in TickIds : TickResume(t)
    \/ \E k \in 1..MaxCampaigns : TimerFire(k)
    \/ \E k \in 1..MaxCampaigns : TimerDone(k)
    \/ \E i \in InvIds : BulkResolve(i)
    \/ \E i \in InvIds : \E a \in AttendeeIds : BulkSendOne(i, a)
    \/ \E i \in InvIds : BulkJoin(i)
    \/ ClockTick

SpecPut == Init /\ [][NextPut]_vars

\* ------------------------------------------------------------------------
\* Registration requests with the promotion tick running
\* ------------------------------------------------------------------------
NextWelcome ==
    \/ \E ev \in 1..2 : \E a \in {NoId} \cup DOMAIN attendees : RegisterArrive(ev, a)
    \/ \E q \in DOMAIN requests : RegisterCheck(q)
    \/ \E q \in DOMAIN requests : RegisterCreate(q)
    \/ \E q \in DOMAIN requests : RegisterWelcome(q)
    \/ \E q \in DOMAIN requests : RegisterSend(q)
    \/ \E t \in TickIds : TickStart(t)
    \/ \E t \in TickIds : TickPromote(t)
    \/ \E t \in TickIds : TickCall(t)
    \/ \E t \in TickIds : TickResume(t)
    \/ \E i \in InvIds : BulkResolve(i)
    \/ \E i \in InvIds : \E a \in AttendeeIds : BulkSendOne(i, a)
    \/ \E i \in InvIds : BulkJoin(i)

SpecWelcome == InitRegister /\ [][NextWelcome]_vars

\* ------------------------------------------------------------------------
\* SchedulerService.scheduleCustomCampaign called again, and shutdown
\* ------------------------------------------------------------------------
\* the service is asked to schedule a campaign that exists for now or later
RescheduleCampaign(cid, sendAt) ==
    /\ Len(requests) < MaxCalls
    /\ cid \in DOMAIN campaigns
    /\ scheduleCustomCampaign(cid, sendAt)
    /\ requests' = Append(requests, Returned("schedule", cid))
    /\ UNCHANGED <<now, campaigns, attendees, events, templates, registrations,
                   emailSends, analyticsEvents, bulk, ticks, reminder, job,
                   provider, score, cleanup>>

\* every task of the table is destroyed and the table cleared
Shutdown ==
    /\ Len(requests) < MaxCalls
    /\ timers' = [k \in DOMAIN timers |->
                    IF \E c \in DOMAIN tasks : tasks[c] = k
                    THEN [timers[k] EXCEPT !.live = FALSE]
                    ELSE timers[k]]
    /\ tasks' = << >>
    /\ requests' = Append(requests, Returned("shutdown", NoId))
    /\ UNCHANGED <<now, campaigns, attendees, events, templates, registrations,
                   emailSends, analyticsEvents, bulk, ticks, reminder, job,
                   provider, score, cleanup>>

\* Campaigns are created and scheduled through POST /api/campaigns and
\* scheduled again through the service; their timers fire and dispatch;
\* campaigns are cancelled and the service is shut down.
NextReschedule ==
    \/ \E ins \in CampaignInputs : CreateCampaign(ins)
    \/ \E cid \in 1..MaxCampaigns :
          \E sendAt \in {t \in now..(now + 1) : t <= MaxTime} :
              RescheduleCampaign(cid, sendAt)
    \/ \E k \in 1..(MaxCampaigns + MaxCalls) : TimerFire(k)
    \/ \E k \in 1..(MaxCampaigns + MaxCalls) : TimerDone(k)
    \/ \E i \in InvIds : BulkResolve(i)
    \/ \E i \in InvIds : \E a \in AttendeeIds : BulkSendOne(i, a)
    \/ \E i \in InvIds : BulkJoin(i)
    \/ \E cid \in 1..MaxCampaigns : CancelCampaign(cid)
    \/ Shutdown
    \/ ClockTick

SpecReschedule == Init /\ [][NextReschedule]_vars

\* ------------------------------------------------------------------------
\* Properties
\* ------------------------------------------------------------------------
\* the call i has completed and its campaign exists
BulkDone(i) == bulk[i].pc = "done" /\ bulk[i].cid \in DOMAIN campaigns

SendsBy(i) == {s \in emailSends : s.by = i}

AudienceSet(i) == {bulk[i].audience[k] : k \in 1..Len(bulk[i].audience)}

\* call i is not started, finished, or waits at an await that resolves:
\* for the audience, for the sends of a batch, or for the delay
BulkRuns(i) ==
    \/ bulk[i].pc \in {"idle", "done", "resolve", "delay"}
    \/ bulk[i].pc = "batch" /\ bulk[i].pending \subseteq AudienceSet(i)

\* C3: the step that completes sendBulkCampaign for an existing campaign
\* leaves the campaign with status sent and sentAt set, whatever the
\* recipient outcomes were.
C3_SentOnCompletion ==
    [][\A i \in InvIds :
          (bulk[i].pc # "done" /\ bulk'[i].pc = "done"
              /\ bulk'[i].cid \in DOMAIN campaigns')
          => /\ campaigns'[bulk'[i].cid].status = "sent"
             /\ campaigns'[bulk'[i].cid].sentAt # NoTime]_vars

\* a completed call in which every recipient of a non-empty audience failed
C3_Witness ==
    \E i \in InvIds :
        /\ BulkDone(i)
        /\ Len(bulk[i].audience) > BatchSize
        /\ bulk[i].sent = 0
        /\ bulk[i].failed = Len(bulk[i].audience)
        /\ campaigns[bulk[i].cid].status = "sent"

C5_FailureIsolated ==
    \A i \in InvIds :
        /\ \A a \in AttendeeIds : CopiesIn(a, bulk[i].attempts) <= 1
        /\ BulkRuns(i)
        /\ BulkDone(i) =>
              \A a \in AudienceSet(i) : CopiesIn(a, bulk[i].attempts) = 1

\* the provider threw for a recipient of the first batch; others of that
\* batch and of a later batch were delivered, and the call completed
C5_Witness ==
    \E i \in InvIds :
        /\ BulkDone(i)
        /\ bulk[i].threw
        /\ \E k \in 1..BatchSize : bulk[i].audience[k] \notin bulk[i].delivered
        /\ \E k \in 1..BatchSize : bulk[i].audience[k] \in bulk[i].delivered
        /\ \E k \in (BatchSize + 1)..Len(bulk[i].audience) :
              bulk[i].audience[k] \in bulk[i].delivered

\* the campaign of call i, or the template or the event it names, is missing
SomethingMissing(i) ==
    \/ bulk[i].cid \notin DOMAIN campaigns
    \/ /\ bulk[i].campaign.templateId # NoId
       /\ bulk[i].campaign.templateId \notin DOMAIN templates
    \/ /\ bulk[i].campaign.eventId # NoId
       /\ bulk[i].campaign.eventId \notin DOMAIN events

NotFoundResult(b) ==
    /\ b.pc = "done"
    /\ b.sent = 0
    /\ b.failed = 1
    /\ b.errors = SetToBag({<<"Campaign not found", 0>>})
    /\ b.mails = << >>

\* C7 as stated: a call that finds the campaign, its template or its event
\* missing reports exactly one error, sends no email and creates no Send
\* record.
C7_AbortsWhenAnythingMissing ==
    \A i \in InvIds :
        (bulk[i].pc = "done" /\ SomethingMissing(i))
        => /\ BagCardinality(bulk[i].errors) = 1
           /\ bulk[i].mails = << >>
           /\ SendsBy(i) = {}

\* C7 as amended: a call on an id that has no campaign record ends at once
\* with sent = 0, failed = 1 and the one error "Campaign not found"; it
\* sends no email, creates no Send record and changes no campaign or
\* attendee record.
C7_AbortsWhenCampaignMissing ==
    /\ [](\A i \in InvIds :
            (bulk[i].pc # "idle" /\ bulk[i].cid \notin DOMAIN campaigns)
            => NotFoundResult(bulk[i]) /\ SendsBy(i) = {})
    /\ [][\A i \in InvIds :
            (bulk[i].pc = "idle" /\ bulk'[i].pc # "idle"
                /\ bulk'[i].cid \notin DOMAIN campaigns)
            => /\ NotFoundResult(bulk'[i])
               /\ UNCHANGED <<campaigns, attendees, emailSends>>]_vars

\* a call on an id without campaign record has returned
C7_Witness ==
    \E i \in InvIds :
        /\ bulk[i].pc = "done"
        /\ bulk[i].cid \notin DOMAIN campaigns
        /\ bulk[i].failed = 1

\* C10: when the personalization request throws, the email handed to the
\* provider carries the template's own subject and content with the
\* template variables applied, and the recipient counts as sent whenever
\* the provider accepts the email.
C10_PersonalizationFailureHarmless ==
    \A i \in InvIds : \A a \in DOMAIN bulk[i].mails :
        LET m == bulk[i].mails[a]
        IN  m.aiThrew =>
              /\ m.subject = applyTemplateVariables(templates[m.templateId].subject, a, m.eventId)
              /\ m.content = applyTemplateVariables(templates[m.templateId].content, a, m.eventId)
              /\ a \in bulk[i].delivered =>
                    /\ \E s \in SendsBy(i) : s.attendeeId = a
                    /\ CopiesIn(<<"Failed to send to", a>>, bulk[i].errors) = 0

\* personalization threw for a recipient, the provider accepted the email
C10_Witness ==
    \E i \in InvIds : \E a \in DOMAIN bulk[i].mails :
        /\ bulk[i].mails[a].aiThrew
        /\ a \in bulk[i].delivered
        /\ bulk[i].sent > 0


\* the calls of sendBulkCampaign that promotion ticks made for campaign c
PromotionCalls(c) == {i \in InvIds : bulk[i].caller = "tick" /\ bulk[i].cid = c}

\* C1: whatever the interleaving of promotion ticks, a campaign is handed
\* to sendBulkCampaign by promotion at most once.
C1_PromotedAtMostOnce ==
    \A c \in DOMAIN campaigns : Cardinality(PromotionCalls(c)) <= 1

\* C2: a campaign has sentAt set if and only if its status is sent.
C2_SentAtIffSent ==
    \A c \in DOMAIN campaigns :
        (campaigns[c].sentAt # NoTime) <=> (campaigns[c].status = "sent")

\* C6: every change of a campaign's status is scheduled -> sending or
\* sending -> sent.
C6_OnlyLegalTransitions ==
    [][\A c \in DOMAIN campaigns :
          campaigns'[c].status # campaigns[c].status
          => <<campaigns[c].status, campaigns'[c].status>>
                \in {<<"scheduled", "sending">>, <<"sending", "sent">>}]_vars

\* C8: in every reachable state every attendee's engagementScore is an
\* integer between 0 and 100: 0 at creation, and every value that the
\* recompute job persists is in that range.
C8_ScoreInRange ==
    \A a \in DOMAIN attendees :
        attendees[a].engagementScore \in ScoreMin..ScoreMax

Smaller(x, y) == IF x <= y THEN x ELSE y

Larger(x, y) == IF x >= y THEN x ELSE y

\* the fallback of a call with these counts
FallbackOf(opens, clicks, attended) ==
    calculateEngagementScore([engagementScore |-> score.current],
                             Activity(opens, clicks, attended, 0), ScoreFails)

\* C9: when the scoring service fails, calculateEngagementScore returns
\* min(100, max(0, currentScore + 2*opens + 5*clicks + 10*attended)); the
\* result is between 0 and 100, one more open, click or attendance never
\* lowers it, and for current score 95 with 2 clicks it is 100.
C9_FallbackFormula ==
    (score.pc = "done" /\ score.failed) =>
        /\ score.result = Smaller(100, Larger(0, score.current + 2 * score.opens
                                + 5 * score.clicks + 10 * score.attended))
        /\ score.result \in 0..100
        /\ FallbackOf(score.opens + 1, score.clicks, score.attended) >= score.result
        /\ FallbackOf(score.opens, score.clicks + 1, score.attended) >= score.result
        /\ FallbackOf(score.opens, score.clicks, score.attended + 1) >= score.result
        /\ (score.current = 95 /\ score.opens = 0 /\ score.clicks = 2
                /\ score.attended = 0) => score.result = 100

\* the failed call with current score 95 and 2 clicks has returned 100
C9_Witness ==
    /\ score.pc = "done"
    /\ score.failed
    /\ score.current = 95
    /\ score.opens = 0
    /\ score.clicks = 2
    /\ score.attended = 0
    /\ score.result = 100

\* the handlers of the triggers whose invocation caught an exception
Caught ==
    {<<"tick", t>> : t \in {u \in TickIds : ticks[u].error # "none"}}
        \cup (IF job.error # "none" THEN {<<"job", 0>>} ELSE {})
        \cup (IF reminder.error # "none" THEN {<<"reminder", 0>>} ELSE {})
        \cup (IF cleanup.error # "none" THEN {<<"cleanup", 0>>} ELSE {})

\* C11: an exception thrown inside a tick of one of the four periodic
\* triggers is caught inside that tick: no handler is left by a rejection,
\* a promotion tick, recompute run or pruning run that caught one has
\* returned, a reminder run that caught one goes on or has returned, and
\* the step that catches it changes no other invocation, so that later
\* ticks of the same trigger and the other triggers run as before.
C11_ExceptionsCaught ==
    /\ [](/\ \A t \in TickIds :
               /\ ticks[t].pc \in {"idle", "promote", "call", "wait", "done"}
               /\ ticks[t].error # "none" => ticks[t].pc = "done"
          /\ job.pc \in {"idle", "run", "done"}
          /\ job.error # "none" => job.pc = "done"
          /\ reminder.pc \in {"idle", "create", "call", "wait", "done"}
          /\ cleanup.pc \in {"idle", "done"})
    /\ [][\A t \in TickIds :
            (ticks[t].error = "none" /\ ticks'[t].error # "none") =>
                /\ \A u \in TickIds \ {t} : ticks'[u] = ticks[u]
                /\ UNCHANGED <<job, reminder, cleanup, tasks, timers, campaigns>>]_vars

\* the first promotion tick caught a rejected write; the next tick has
\* promoted and dispatched the campaign, and the other three triggers
\* have run
C11_Witness ==
    /\ ticks[1].error = "store"
    /\ ticks[1].snapshot = <<1>>
    /\ ticks[2].pc = "done"
    /\ ticks[2].error = "none"
    /\ ticks[2].snapshot = <<1>>
    /\ campaigns[1].status = "sent"
    /\ job.pc = "done"
    /\ job.error = "none"
    /\ reminder.pc = "done"
    /\ cleanup.pc = "done"
    /\ cleanup.error = "none"

\* C12: every campaign that the Scheduler sets to sending eventually has
\* status sent: no campaign stays in sending forever while the scheduler
\* keeps running and each send attempt returns.
C12_SendingReachesSent ==
    \A c \in CampaignIds :
        (c \in DOMAIN campaigns /\ campaigns[c].status = "sending")
            ~> (c \in DOMAIN campaigns /\ campaigns[c].status = "sent")

\* the reminder thresholds of 24 h, 2 h and 0.5 h, in half hours
Thresholds == {48, 4, 1}

\* t - 1 < hoursUntilStart <= t at the time at, in half hours
InWindow(start, at, h) == h - 2 < start - at /\ start - at <= h

\* the pairs of event and threshold that a tick at the time at is to remind
Expected(at) ==
    {p \in (DOMAIN events) \X Thresholds :
        /\ events[p[1]].status \in {"published", "live"}
        /\ InWindow(events[p[1]].startDate, at, p[2])}

ActiveReminderTemplate ==
    \E t \in DOMAIN templates :
        templates[t].type = "reminder" /\ templates[t].isActive

ReminderItems(r) == {r.work[k] : k \in 1..Len(r.work)}

\* the reminder campaigns of event e for the threshold h
ReminderCampaigns(e, h) ==
    {c \in DOMAIN campaigns :
        /\ campaigns[c].type = "reminder"
        /\ campaigns[c].eventId = e
        /\ campaigns[c].name = <<"Auto-Reminder", h>>}

\* C13: a reminder tick handles exactly the pairs of a published or live
\* event and a threshold t with t - 1 < hoursUntilStart <= t; for each of
\* them, one after the other, it creates a reminder campaign named after
\* the threshold if and only if there is an active reminder template, and
\* dispatches the campaign it created; no other step creates a campaign.
C13_ReminderWindow ==
    [][/\ reminder'.lastRun # reminder.lastRun
            => /\ ReminderItems(reminder') = Expected(now)
               /\ Len(reminder'.work) = Cardinality(Expected(now))
       /\ DOMAIN campaigns' # DOMAIN campaigns
            => /\ reminder.pc = "create"
               /\ ActiveReminderTemplate
               /\ \E c \in DOMAIN campaigns' \ DOMAIN campaigns :
                     /\ DOMAIN campaigns' = DOMAIN campaigns \cup {c}
                     /\ campaigns'[c].type = "reminder"
                     /\ campaigns'[c].eventId = reminder.work[reminder.pos][1]
                     /\ campaigns'[c].name =
                            <<"Auto-Reminder", reminder.work[reminder.pos][2]>>
                     /\ reminder'.cid = c
                     /\ reminder'.pc = "call"
       /\ (reminder.pc = "create" /\ reminder' # reminder)
            => (ActiveReminderTemplate <=> DOMAIN campaigns' # DOMAIN campaigns)
       /\ (reminder.pc = "call" /\ reminder' # reminder)
            => /\ reminder'.pc = "wait"
               /\ bulk[reminder'.inv].pc = "idle"
               /\ bulk'[reminder'.inv].cid = reminder.cid
               /\ bulk'[reminder'.inv].pc # "idle"
       /\ (reminder.pc = "wait" /\ reminder' # reminder)
            => bulk[reminder.inv].pc = "done"]_vars

\* the tick found the event exactly 24 hours away and its 24 h reminder
\* campaign was created and sent
C13_Witness ==
    /\ reminder.pc = "done"
    /\ reminder.work = <<<<1, 48>>>>
    /\ events[1].startDate - reminder.lastRun = 48
    /\ \E c \in ReminderCampaigns(1, 48) : campaigns[c].status = "sent"

\* C14: over the hourly reminder ticks, for any one event and any one
\* threshold, at most one reminder campaign is created.
C14_OncePerThreshold ==
    \A e \in DOMAIN events : \A h \in Thresholds :
        Cardinality(ReminderCampaigns(e, h)) <= 1

\* C15: once a run of cleanupOldData has completed, no analytics event
\* with a timestamp more than 90 days before the run is left in the store.
C15_OldEventsPruned ==
    (cleanup.pc = "done" /\ cleanup.error = "none")
        => \A e \in analyticsEvents :
              ~(e.timestamp < cleanup.lastRun - RetentionWindow)

\* the step is a call of cancelScheduledCampaign
CancelStep ==
    /\ Len(requests') = Len(requests) + 1
    /\ requests'[Len(requests')].op = "cancel"

CancelledId == requests'[Len(requests')].cid

StoreUnchanged ==
    UNCHANGED <<campaigns, attendees, events, templates, registrations,
                emailSends, analyticsEvents, bulk>>

\* the task of timer k is destroyed, nothing else in the table changes
DestroyedOnly(k) ==
    /\ DOMAIN timers' = DOMAIN timers
    /\ ~timers'[k].live
    /\ \A j \in DOMAIN timers :
          timers'[j] = IF j = k THEN [timers[j] EXCEPT !.live = FALSE]
                       ELSE timers[j]

\* a destroyed task that has not fired stays so: it never dispatches
DestroyedStaysArmed ==
    \A k \in DOMAIN timers :
        (~timers[k].live /\ timers[k].pc = "armed")
            => (~timers'[k].live /\ timers'[k].pc = "armed")

\* the timer of campaign cid is in the table and has not fired
TimerPending(cid) ==
    cid \in DOMAIN tasks /\ timers[tasks[cid]].pc = "armed"

\* C16 as stated: a cancel call returns normally; a pending timer of the
\* campaign is destroyed and removed from the table and never dispatches;
\* with no pending timer (never scheduled, already cancelled, already
\* fired) the call changes neither the timer table nor the store.
C16_CancelAsStated ==
    [][/\ CancelStep
            => /\ requests'[Len(requests')].pc = "returned"
               /\ StoreUnchanged
               /\ IF TimerPending(CancelledId)
                  THEN /\ CancelledId \notin DOMAIN tasks'
                       /\ DestroyedOnly(tasks[CancelledId])
                  ELSE UNCHANGED <<tasks, timers>>
       /\ DestroyedStaysArmed]_vars

\* C16: a cancel call returns normally and never changes the store; when
\* the table has an entry for the campaign (its timer is pending, or has
\* fired and its dispatch is still running) the task is destroyed and the
\* entry removed, and a destroyed timer that had not fired never
\* dispatches; with no entry (never scheduled, already cancelled, fired
\* and finished) the timer table is unchanged.
C16_Cancel ==
    [][/\ CancelStep
            => /\ requests'[Len(requests')].pc = "returned"
               /\ StoreUnchanged
               /\ IF CancelledId \in DOMAIN tasks
                  THEN /\ CancelledId \notin DOMAIN tasks'
                       /\ DOMAIN tasks' = DOMAIN tasks \ {CancelledId}
                       /\ \A c \in DOMAIN tasks' : tasks'[c] = tasks[c]
                       /\ DestroyedOnly(tasks[CancelledId])
                  ELSE UNCHANGED <<tasks, timers>>
       /\ DestroyedStaysArmed]_vars

\* a pending timer was cancelled, a second cancel of the same campaign
\* found nothing, and the time of the timer has come without a dispatch by
\* it
C16_Witness ==
    /\ Len(requests) = 2
    /\ requests[1] = Returned("cancel", 1)
    /\ requests[2] = Returned("cancel", 1)
    /\ 1 \in DOMAIN timers
    /\ ~timers[1].live
    /\ timers[1].pc = "armed"
    /\ timers[1].created < timers[1].at
    /\ now = timers[1].at
    /\ 1 \notin DOMAIN tasks

\* the analytics events of the given type recorded for the Send s
TrackEvents(store, s, type) ==
    {e \in store : /\ e.eventType = type
                   /\ e.attendeeId = s.attendeeId
                   /\ e.campaignId = s.campaignId}

\* the Send with the id of s after the step
SendAfter(s) == CHOOSE t \in emailSends' : t.id = s.id

\* C17: record-open and record-click are idempotent per Send: once
\* openedAt (clickedAt) is set, no step changes it and no step records a
\* further email_open (email_click) event for the Send.
C17_TrackingIdempotent ==
    [][\A s \in emailSends :
          /\ s.openedAt # NoTime
                => /\ SendAfter(s).openedAt = s.openedAt
                   /\ TrackEvents(analyticsEvents', s, "email_open")
                          = TrackEvents(analyticsEvents, s, "email_open")
          /\ s.clickedAt # NoTime
                => /\ SendAfter(s).clickedAt = s.clickedAt
                   /\ TrackEvents(analyticsEvents', s, "email_click")
                          = TrackEvents(analyticsEvents, s, "email_click")]_vars

\* the Registrations of the pair
PairRegistrations(ev, a) ==
    {r \in registrations : r.eventId = ev /\ r.attendeeId = a}

\* C18: after any interleaving of registration requests the store holds at
\* most one Registration per pair of event and attendee.
C18_OneRegistrationPerPair ==
    \A ev \in 1..2 : \A a \in DOMAIN attendees :
        Cardinality(PairRegistrations(ev, a)) <= 1

\* the call i has resolved the audience of its campaign
Resolved(i) ==
    /\ bulk[i].cid \in DOMAIN campaigns
    /\ bulk[i].pc \in {"batch", "delay", "done"}

\* the targeting has no criterion
NoCriteria(ta) ==
    \/ ~ta.present
    \/ /\ ta.interests = {}
       /\ ~ta.hasScore
       /\ ta.attendanceHistory \in {"none", "all"}

\* the attendees with a Registration for the event
Registered(ev) ==
    {a \in DOMAIN attendees :
        \E r \in registrations : r.eventId = ev /\ r.attendeeId = a}

\* C19: for a campaign with no targeting criteria the audience is the
\* whole attendee population when no event is linked, and exactly the
\* attendees with a Registration for the linked event otherwise, each
\* once.
C19_UntargetedAudience ==
    \A i \in InvIds :
        (Resolved(i) /\ NoCriteria(bulk[i].campaign.targetAudience))
            => /\ AudienceSet(i) = IF bulk[i].campaign.eventId = NoId
                                   THEN DOMAIN attendees
                                   ELSE Registered(bulk[i].campaign.eventId)
               /\ Len(bulk[i].audience) = Cardinality(AudienceSet(i))

\* a campaign without criteria linked to event 1, for which one of the
\* attendees is registered, has resolved to that attendee
C19_Witness ==
    \E i \in InvIds :
        /\ Resolved(i)
        /\ NoCriteria(bulk[i].campaign.targetAudience)
        /\ bulk[i].campaign.eventId = 1
        /\ Registered(1) = {1}
        /\ bulk[i].audience = <<1>>
        /\ DOMAIN attendees # {1}

\* attendee a passes the filters of the campaign other than the score range
PassesOthers(a, campaign) ==
    LET ta == campaign.targetAudience
    IN  /\ campaign.eventId # NoId => a \in Registered(campaign.eventId)
        /\ ta.interests # {} => attendees[a].interests \cap ta.interests # {}
        /\ (ta.attendanceHistory = "attended" /\ campaign.eventId # NoId)
              => \E r \in registrations :
                    /\ r.eventId = campaign.eventId
                    /\ r.attendeeId = a
                    /\ r.attended = "true"
        /\ (ta.attendanceHistory = "not-attended" /\ campaign.eventId # NoId)
              => \E r \in registrations :
                    /\ r.eventId = campaign.eventId
                    /\ r.attendeeId = a
                    /\ r.attended # "true"

\* C20: with a score range [min, max] in the targeting, every attendee of
\* the audience has min <= score <= max, and an attendee who passes the
\* other filters and whose score is min or max is in the audience.
C20_ScoreRangeInclusive ==
    \A i \in InvIds :
        (Resolved(i) /\ bulk[i].campaign.targetAudience.hasScore)
            => LET ta == bulk[i].campaign.targetAudience
               IN  /\ \A a \in AudienceSet(i) :
                         /\ ta.min <= attendees[a].engagementScore
                         /\ attendees[a].engagementScore <= ta.max
                   /\ \A a \in DOMAIN attendees :
                         (/\ PassesOthers(a, bulk[i].campaign)
                          /\ attendees[a].engagementScore \in {ta.min, ta.max})
                            => a \in AudienceSet(i)

\* the campaign with the given interest tags in its targeting
WithInterests(campaign, ints) ==
    [campaign EXCEPT !.targetAudience.interests = ints]

\* the audience of a campaign, as a set
TargetSet(campaign) ==
    LET audience == getTargetAttendees(campaign)
    IN  {audience[k] : k \in 1..Len(audience)}

\* C21: with a non-empty set of interest tags in the targeting, the
\* audience is exactly the attendees that the campaign without the tags
\* would reach and whose interest tags share at least one tag with the
\* set; an empty or absent set filters nothing.
C21_InterestsAnyTag ==
    \A i \in InvIds :
        Resolved(i)
            => LET campaign == bulk[i].campaign
                   ta == campaign.targetAudience
               IN  AudienceSet(i) =
                       IF ta.present /\ ta.interests # {}
                       THEN {a \in TargetSet(WithInterests(campaign, {})) :
                                \E tag \in ta.interests :
                                    tag \in attendees[a].interests}
                       ELSE TargetSet(WithInterests(campaign, {}))

\* the targeting names two tags; the audience holds an attendee with only
\* the first and an attendee with only the second
C21_Witness ==
    \E i \in InvIds :
        /\ Resolved(i)
        /\ bulk[i].campaign.targetAudience.interests = {"ai", "web"}
        /\ attendees[1].interests = {"ai"}
        /\ attendees[2].interests = {"web"}
        /\ {1, 2} \subseteq AudienceSet(i)

\* the campaign with the given attendance history in its targeting
WithHistory(campaign, h) ==
    [campaign EXCEPT !.targetAudience.attendanceHistory = h]

\* the attendance filter applies: a history other than all and a linked
\* event
HistoryApplies(campaign) ==
    /\ campaign.targetAudience.present
    /\ campaign.targetAudience.attendanceHistory \in {"attended", "not-attended"}
    /\ campaign.eventId # NoId

\* attendee a has a Registration for the event with one of the flags
RegisteredWith(a, ev, flags) ==
    \E r \in registrations :
        r.eventId = ev /\ r.attendeeId = a /\ r.attended \in flags

\* C22 as stated: with a linked event, attended keeps exactly the
\* candidates whose Registration has attended = true and not-attended
\* exactly those whose Registration has attended = false; all, or any
\* history without linked event, filters nothing.
C22_HistoryAsStated ==
    \A i \in InvIds :
        Resolved(i)
            => LET campaign == bulk[i].campaign
                   base == TargetSet(WithHistory(campaign, "all"))
               IN  AudienceSet(i) =
                       IF HistoryApplies(campaign)
                       THEN {a \in base : RegisteredWith(a, campaign.eventId,
                                IF campaign.targetAudience.attendanceHistory = "attended"
                                THEN {"true"} ELSE {"false"})}
                       ELSE base

\* C22: with a linked event, attended keeps exactly the candidates whose
\* Registration has attended = true and not-attended exactly those whose
\* Registration has attended false or not set; all, or any history
\* without linked event, filters nothing.
C22_HistoryFilter ==
    \A i \in InvIds :
        Resolved(i)
            => LET campaign == bulk[i].campaign
                   base == TargetSet(WithHistory(campaign, "all"))
               IN  AudienceSet(i) =
                       IF HistoryApplies(campaign)
                       THEN {a \in base : RegisteredWith(a, campaign.eventId,
                                IF campaign.targetAudience.attendanceHistory = "attended"
                                THEN {"true"} ELSE {"false", "null"})}
                       ELSE base

\* not-attended with a linked event has kept the attendee marked as absent
\* and the attendee whose attendance was never set
C22_Witness ==
    \E i \in InvIds :
        /\ Resolved(i)
        /\ HistoryApplies(bulk[i].campaign)
        /\ bulk[i].campaign.targetAudience.attendanceHistory = "not-attended"
        /\ RegisteredWith(1, 1, {"false"})
        /\ RegisteredWith(2, 1, {"null"})
        /\ AudienceSet(i) = {1, 2}

KnownPlaceholders ==
    {"attendeeName", "attendeeEmail", "attendeeCompany", "attendeeJobTitle",
     "eventTitle", "eventDescription", "eventDate", "eventTime",
     "eventLocation", "timeUntil", "resourceLinks", "feedbackLink"}

IsKnown(t) == t[1] = "ph" /\ t[2] \in KnownPlaceholders

\* out is inp with something put in the place of each known placeholder and
\* every other piece kept where it was
RECURSIVE OnlyAtPlaceholders(_, _)
OnlyAtPlaceholders(inp, out) ==
    IF inp = << >> THEN out = << >>
    ELSE IF IsKnown(Head(inp))
         THEN \E k \in 0..Len(out) :
                  /\ \A j \in 1..k : out[j] \notin RenderTokens \ {Head(inp)}
                  /\ OnlyAtPlaceholders(Tail(inp), SubSeq(out, k + 1, Len(out)))
         ELSE /\ out # << >>
              /\ Head(out) = Head(inp)
              /\ OnlyAtPlaceholders(Tail(inp), Tail(out))

\* C23: applyTemplateVariables changes its input only where a known
\* placeholder stands: every other piece, a placeholder the renderer does
\* not know included, is in the output verbatim and in place, and an input
\* without any placeholder is returned unchanged
C23_UnknownVerbatim ==
    \A k \in 1..Len(requests) :
        requests[k].op = "render" /\ requests[k].pc = "returned"
            => /\ OnlyAtPlaceholders(requests[k].input, requests[k].output)
               /\ (\A j \in 1..Len(requests[k].input) : requests[k].input[j][1] # "ph")
                      => requests[k].output = requests[k].input

C23_Witness ==
    /\ requests # << >>
    /\ requests[1].op = "render"
    /\ requests[1].pc = "returned"
    /\ requests[1].input = <<Ph("unknownVar"), Ph("attendeeName"), Lit("text", 0)>>
    /\ requests[1].output = <<Ph("unknownVar"), Lit("name", 1), Lit("text", 0)>>

\* the sends of invocation i that were issued: finished or still in flight
Issued(i) == bulk[i].pending \cup BagToSet(bulk[i].attempts)

GroupOf(k) == (k - 1) \div BatchSize

\* C24: one sendBulkCampaign call works through its audience in consecutive
\* groups of at most 10: a send for a recipient of a later group is issued
\* only when every send of the earlier groups has finished, and at most 10
\* sends are in flight at any time
C24_BatchesInOrder ==
    \A i \in InvIds :
        LET audience == bulk[i].audience
        IN  /\ Cardinality(bulk[i].pending) <= BatchSize
            /\ \A j, k \in 1..Len(audience) :
                   GroupOf(j) < GroupOf(k) /\ audience[k] \in Issued(i)
                       => /\ audience[j] \in BagToSet(bulk[i].attempts)
                          /\ audience[j] \notin bulk[i].pending

C24_Witness ==
    \E i \in InvIds :
        /\ Len(bulk[i].audience) > BatchSize
        /\ bulk[i].audience[BatchSize + 1] \in BagToSet(bulk[i].attempts)
        /\ bulk[i].audience[Len(bulk[i].audience)] \in bulk[i].pending

\* the invocations of sendBulkCampaign on campaign cid that some caller in
\* from made
DispatchesBy(cid, from) ==
    {i \in InvIds : bulk[i].pc # "idle" /\ bulk[i].cid = cid /\ bulk[i].caller \in from}

SendsOf(cid, a) == {s \in emailSends : s.campaignId = cid /\ s.attendeeId = a}

\* C25: an auto-reminder campaign is dispatched once, by the reminder path:
\* no promotion tick dispatches it as well, and no attendee has two Send
\* records for it
C25_ReminderDispatchedOnce ==
    \A cid \in DOMAIN campaigns :
        campaigns[cid].type = "reminder"
            => /\ DispatchesBy(cid, {"tick"}) = {}
               /\ \A a \in DOMAIN attendees : Cardinality(SendsOf(cid, a)) <= 1

\* C26: a campaign created with status scheduled and an explicit scheduledAt
\* is dispatched at most once in total: never by its one-shot timer and by
\* the promotion scan both
C26_TimerOrScanOnce ==
    \A cid \in DOMAIN campaigns :
        campaigns[cid].type # "reminder" /\ campaigns[cid].scheduledAt # NoTime
            => /\ Cardinality(DispatchesBy(cid, {"timer", "tick"})) <= 1
               /\ ~(DispatchesBy(cid, {"timer"}) # {} /\ DispatchesBy(cid, {"tick"}) # {})

\* C27: when the one-shot timer of a campaign fires, the campaign is
\* dispatched only if its status is scheduled at that moment: a campaign set
\* to cancelled or draft, or already sent, gets no dispatch from its timer
C27_TimerChecksStatus ==
    \A i \in InvIds :
        bulk[i].pc # "idle" /\ bulk[i].caller = "timer"
            => bulk[i].campaign.status = "scheduled"

\* C28: the welcome campaign that a registration request of attendee A
\* created has Send records for A only, and no promotion tick dispatches it
C28_WelcomeOnlyForRegistrant ==
    \A q \in DOMAIN requests :
        requests[q].op = "register" /\ requests[q].cid # NoId
            => /\ \A s \in emailSends :
                      s.campaignId = requests[q].cid
                          => s.attendeeId = requests[q].attendeeId
               /\ DispatchesBy(requests[q].cid, {"tick"}) = {}

LiveTimers(cid) == {k \in DOMAIN timers : timers[k].live /\ timers[k].cid = cid}

\* C29: a campaign has at most one live one-shot timer, and a live timer is
\* the one that the tasks table records for its campaign
C29_LiveTimerIsTracked ==
    /\ \A cid \in CampaignIds : Cardinality(LiveTimers(cid)) <= 1
    /\ \A k \in DOMAIN timers :
           timers[k].live
               => /\ timers[k].cid \in DOMAIN tasks
                  /\ tasks[timers[k].cid] = k

\* C30: a reminder tick takes up no event that starts at the time of the
\* tick or earlier, and creates no reminder campaign for such an event
C30_NoReminderAfterStart ==
    [][/\ reminder'.lastRun # reminder.lastRun
            => \A p \in ReminderItems(reminder') : events[p[1]].startDate > now
       /\ DOMAIN campaigns' # DOMAIN campaigns
            => \A c \in DOMAIN campaigns' \ DOMAIN campaigns :
                   campaigns'[c].type = "reminder"
                       => events[campaigns'[c].eventId].startDate > reminder.lastRun]_vars

====
